---- MODULE Spec2Model ----
(***************************************************************************)
(* A state-machine model of MindtPy's outer-approximation controller       *)
(* (pyomo/contrib/mindtpy/outer_approximation.py): MindtPy_OA_Solver.solve,*)
(* check_config, MindtPy_iteration_loop and                                *)
(* deactivate_no_good_cuts_when_fixing_bound.                              *)
(*                                                                         *)
(* The solver adapters and the methods inherited from _MindtPyAlgorithm    *)
(* (solve_main, solve_subproblem, the outcome handlers,                    *)
(* algorithm_should_terminate, fix_dual_bound) are not part of the         *)
(* translated file: their effects are modelled from the design document    *)
(* and every outcome they can report is a nondeterministic choice.         *)
(***************************************************************************)
EXTENDS Integers, Sequences, FiniteSets, TLC

\* ------------------------------------------------------------------ bounds
MaxIter == 3
NAssign == 2
MaxBound == 2
MaxPool == 2

Assignments == 1..NAssign
ObjValues == 1..MaxBound
NegInf == 0
PosInf == MaxBound + 1
NoSol == 0

MaxCons == 2

\* No logical expression has been created and no call made.
NoExpressions == [lists |-> <<>>, objects |-> <<>>]

NoCall == [fn |-> "none", receiver |-> 0, operands |-> <<>>, result |-> 0]

\* The activation states of the constraints of a model.
ConstraintStates == [nonlinear : BOOLEAN, active : BOOLEAN]

\* The models solve may be given, as set_up_solve_data clones them into the
\* working model: the original objective is active and there is no epigraph
\* component yet.
WorkingModels ==
    [constraints : UNION {[1..n -> ConstraintStates] : n \in 0..MaxCons},
     degree_handleable : BOOLEAN,
     objective_list_0 : {"active"},
     objective_constr : {"absent"},
     objective : {"absent"},
     var_bounds : BOOLEAN]

\* One model with a nonlinear and a linear constraint and a linear objective.
SampleModel ==
    [constraints |-> <<[nonlinear |-> TRUE, active |-> TRUE],
                       [nonlinear |-> FALSE, active |-> TRUE]>>,
     degree_handleable |-> TRUE,
     objective_list_0 |-> "active",
     objective_constr |-> "absent",
     objective |-> "absent",
     var_bounds |-> FALSE]

VARIABLES
    config,              \* the ConfigBlock of this solve call
    objective_sense,     \* "minimize" | "maximize"
    expressions,         \* the logical expression objects and their lists
    logical_call,        \* the latest call of land, lor or add
    pc,                  \* position in solve / MindtPy_iteration_loop
    raised,              \* "none" or the exception that left solve
    mip_iter,            \* self.mip_iter
    best_solution_found, \* "None" | "found"
    primal_bound,        \* self.primal_bound
    dual_bound,          \* self.dual_bound
    dual_bound_progress, \* self.dual_bound_progress
    should_terminate,    \* self.should_terminate
    integer_list,        \* self.integer_list (explored assignments)
    curr_int_sol,        \* self.curr_int_sol
    mip_sol,             \* integer assignment held by self.mip
    work_sol,            \* integer assignment held by self.working_model
    no_good_cuts,        \* MindtPy.cuts.no_good_cuts: <<[asg, active]>>
    last_iter_cuts,      \* local of MindtPy_iteration_loop
    main_tc,             \* termination condition of the last main solve
    nlp_tc,              \* termination condition of the last subproblem solve
    pool,                \* entries of the sorted solution_name_obj the for loop has not reached
    counter,             \* local counter of the solution-pool branch
    iter_log,            \* calls made by the loop body in this iteration
    last_check,          \* site and outcome of the last termination check
    terminated,          \* a termination check has returned True in this run
    solved,              \* assignments the subproblem was solved for
    repeat_solved,       \* the subproblem was solved again for one of them
    fix_called,          \* fix_dual_bound was called after the loop
    regularization_mip_type, \* self.regularization_mip_type
    results,             \* what solve returned: "pending" | "None" | "results"
    working_model,       \* self.working_model: constraints and objectives with their activation
    mip,                 \* self.mip, the main model: "None" before initialize_mip_problem
    oa_cuts,             \* self.mip.MindtPy_utils.cuts.oa_cuts
    inequality_call      \* arguments and outcome of a call of logical_expr.inequality

vars == <<config, objective_sense, expressions, logical_call, pc, raised,
          mip_iter, best_solution_found,
          primal_bound, dual_bound, dual_bound_progress, should_terminate,
          integer_list, curr_int_sol, mip_sol, work_sol, no_good_cuts,
          last_iter_cuts, main_tc, nlp_tc, pool, counter, iter_log,
          last_check, terminated, solved, repeat_solved, fix_called,
          regularization_mip_type, results, working_model, mip, oa_cuts,
          inequality_call>>

\* ----------------------------------------------------------------- helpers
Range(s) == {s[i] : i \in 1..Len(s)}

Max(a, b) == IF a >= b THEN a ELSE b

Min(a, b) == IF a <= b THEN a ELSE b

PersistentSolvers == {"cplex_persistent", "gurobi_persistent"}

InitialDualBound == IF objective_sense = "minimize" THEN NegInf ELSE PosInf

InitialPrimalBound == IF objective_sense = "minimize" THEN PosInf ELSE NegInf

\* A dual bound that takes the objective of the latest main solve.
LatestMainObjective(v) == v

\* update_dual_bound: the dual bound never worsens with respect to the sense.
UpdatedDualBound(v) ==
    IF objective_sense = "minimize" THEN Max(dual_bound, v) ELSE Min(dual_bound, v)

\* update_primal_bound: the primal bound keeps the best objective found.
UpdatedPrimalBound(v) ==
    IF objective_sense = "minimize" THEN Min(primal_bound, v) ELSE Max(primal_bound, v)

ImprovesPrimal(v) ==
    IF objective_sense = "minimize" THEN v < primal_bound ELSE v > primal_bound

\* Primal/dual gap within tolerance.
BoundsConverged ==
    IF objective_sense = "minimize" THEN dual_bound >= primal_bound
    ELSE dual_bound <= primal_bound

\* Assignments an active no-good cut or the tabu list excludes from the main problem.
Excluded ==
    (IF config.add_no_good_cuts
        THEN {no_good_cuts[i].asg : i \in {j \in 1..Len(no_good_cuts) : no_good_cuts[j].active}}
        ELSE {})
    \cup (IF config.use_tabu_list THEN Range(integer_list) ELSE {})

Log(e) == Append(iter_log, e)

\* Integer assignments are interchangeable labels: a solver result that
\* brings an assignment the run has not met yet brings the least unused one.
Seen ==
    Range(integer_list) \cup solved \cup ({mip_sol, work_sol, curr_int_sol} \ {NoSol})
    \cup {no_good_cuts[i].asg : i \in 1..Len(no_good_cuts)}
    \cup {pool[i].asg : i \in 1..Len(pool)}

LeastOf(S) == CHOOSE x \in S : \A y \in S : x <= y

FreshAfter(S) ==
    IF Assignments \ S = {} THEN {} ELSE {LeastOf(Assignments \ S)}

\* The assignments a main-problem solve may return.
MainSolutions == (Assignments \ Excluded) \ (Assignments \ (Seen \cup FreshAfter(Seen)))

\* The assignments of a solution pool, numbered in the order the solver
\* lists its entries.
PoolInOrder(names) ==
    \A i \in 1..Len(names) :
       LET before == Seen \cup {names[j] : j \in 1..(i - 1)}
       IN names[i] \in before \cup FreshAfter(before)

\* Duplicate-free sequences of assignments of length at most 2: what the
\* lazy-constraint callback may have recorded during one tree search.
ExploredChoices ==
    {<<>>} \cup {<<a>> : a \in Assignments}
    \cup {s \in [1..2 -> Assignments] : s[1] # s[2]}

\* ------------------------------------------------------------ check_config
LagrangianBased == {"grad_lag", "hess_lag", "hess_only_lag", "sqp_lag"}

\* The level-based regularizations only.
MilpLevelRegularizations == {"level_L1", "level_L_infinity"}

\* Line 360.
MilpRegularizations == {"level_L1", "level_L_infinity", "grad_lag"}

MiqpRegularizations == {"level_L2", "hess_lag", "hess_only_lag", "sqp_lag"}

\* Lines 327-340: the adjustments made when add_regularization is not None.
RegularizationConfig(c) ==
    IF c.add_regularization = "None" THEN c
    ELSE LET c1 == IF c.add_regularization \in LagrangianBased
                   THEN [c EXCEPT !.calculate_dual_at_solution = TRUE] ELSE c
             c2 == IF c1.regularization_mip_threads = 0 /\ c1.threads > 0
                   THEN [c1 EXCEPT !.regularization_mip_threads = c1.threads] ELSE c1
             c3 == IF c2.single_tree
                   THEN LET d == [c2 EXCEPT !.add_cuts_at_incumbent = TRUE]
                        IN IF ~(d.reduce_level_coef \/ d.use_bb_tree_incumbent)
                           THEN [d EXCEPT !.use_bb_tree_incumbent = TRUE] ELSE d
                   ELSE c2
         IN IF c3.mip_regularization_solver = "None"
            THEN [c3 EXCEPT !.mip_regularization_solver = c3.mip_solver] ELSE c3

\* Lines 341-344: single-tree forces one outer iteration and no slack.
SingleTreeConfig(c) ==
    IF c.single_tree THEN [c EXCEPT !.iteration_limit = 1, !.add_slack = FALSE] ELSE c

\* A check_config that accepts every solver.
SingleTreeSolverAccepted(c) == FALSE

\* Line 345: the solver check that raises ValueError.
SingleTreeSolverUnsupported(c) ==
    c.single_tree /\ c.mip_solver \notin PersistentSolvers

\* Lines 348-351: lazy callbacks conflict with multi-threading.
SingleTreeThreads(c) ==
    IF c.single_tree /\ c.threads > 1 THEN [c EXCEPT !.threads = 1] ELSE c

\* Lines 352-358.
RelaxationConfig(c) ==
    LET c1 == IF c.heuristic_nonconvex
              THEN [c EXCEPT !.equality_relaxation = TRUE, !.add_slack = TRUE] ELSE c
        c2 == IF c1.equality_relaxation
              THEN [c1 EXCEPT !.calculate_dual_at_solution = TRUE] ELSE c1
    IN IF c2.init_strategy = "FP" \/ c2.add_regularization # "None"
       THEN [c2 EXCEPT !.move_objective = TRUE] ELSE c2

\* Lines 359-363.
RegularizationMipType(c, old) ==
    IF c.add_regularization = "None" THEN old
    ELSE IF c.add_regularization \in MilpRegularizations THEN "MILP"
    ELSE IF c.add_regularization \in MiqpRegularizations THEN "MIQP"
    ELSE old

\* check_config, lines 325-364.
CheckConfig ==
    /\ pc = "check_config"
    /\ LET c1 == SingleTreeConfig(RegularizationConfig(config))
       IN IF SingleTreeSolverUnsupported(c1)
          THEN /\ config' = c1
               /\ raised' = "ValueError"
               /\ pc' = "raised"
               /\ UNCHANGED regularization_mip_type
          ELSE LET c2 == RelaxationConfig(SingleTreeThreads(c1))
               IN /\ config' = c2
                  /\ regularization_mip_type' =
                         RegularizationMipType(c2, regularization_mip_type)
                  /\ pc' = "set_up"
                  /\ UNCHANGED raised
    /\ UNCHANGED <<objective_sense, expressions, logical_call,
                   working_model, mip, oa_cuts,
                   inequality_call, mip_iter, best_solution_found, primal_bound,
                   dual_bound, dual_bound_progress, should_terminate, integer_list,
                   curr_int_sol, mip_sol, work_sol, no_good_cuts, last_iter_cuts,
                   main_tc, nlp_tc, pool, counter, iter_log, last_check,
                   terminated, solved, repeat_solved, fix_called, results>>

\* ------------------------------------------------------------------- solve
\* Lines 89-90: the model does not pass validation and solve returns early.
ModelInvalid ==
    /\ pc = "set_up"
    /\ pc' = "returned"
    /\ results' = "None"
    /\ UNCHANGED <<config, objective_sense, expressions, logical_call,
                   working_model, mip, oa_cuts,
                   inequality_call, raised, mip_iter, best_solution_found,
                   primal_bound, dual_bound, dual_bound_progress, should_terminate,
                   integer_list, curr_int_sol, mip_sol, work_sol, no_good_cuts,
                   last_iter_cuts, main_tc, nlp_tc, pool, counter,
                   iter_log, last_check, terminated, solved, repeat_solved,
                   fix_called, regularization_mip_type>>

\* process_objective (lines 100-107): the objective is moved to an epigraph
\* constraint when move_objective is set or the main problem cannot handle
\* its polynomial degree; the original objective is then inactive and the
\* epigraph constraint and objective are active.
ProcessObjective(wm, c) ==
    IF c.move_objective \/ ~wm.degree_handleable
    THEN [wm EXCEPT !.objective_list_0 = "inactive",
                    !.objective_constr = "active",
                    !.objective = "active"]
    ELSE wm

\* A restoration that does not ask for regularization.
OriginalObjectiveRestoredAnyMode(wm, c) == wm.degree_handleable

\* Line 112: the condition under which the original objective is used.
OriginalObjectiveRestored(wm, c) ==
    wm.degree_handleable /\ c.add_regularization # "None"

\* Lines 112-115.
RestoreOriginalObjective(wm, c) ==
    IF OriginalObjectiveRestored(wm, c)
    THEN [wm EXCEPT !.objective_list_0 = "active",
                    !.objective_constr = "inactive",
                    !.objective = "inactive"]
    ELSE wm

\* An incumbent reset that keeps what the solver object holds.
IncumbentKept == best_solution_found

\* Lines 123-124: self.best_solution_found = None.
IncumbentReset == "None"

\* Lines 77-124: set_up_solve_data creates the solve data, process_objective
\* and lines 112-115 settle the objective of the working model, and the
\* incumbent of the solver object is reset.
SetUp ==
    /\ pc = "set_up"
    /\ mip_iter' = 0
    /\ should_terminate' = FALSE
    /\ integer_list' = <<>>
    /\ no_good_cuts' = <<>>
    /\ dual_bound_progress' = <<InitialDualBound>>
    /\ dual_bound' = InitialDualBound
    /\ primal_bound' = InitialPrimalBound
    /\ working_model' =
          RestoreOriginalObjective(ProcessObjective(working_model, config), config)
    /\ best_solution_found' = IncumbentReset
    /\ pc' = "initialize_mip_problem"
    /\ UNCHANGED <<config, objective_sense, expressions, logical_call,
                   mip, oa_cuts,
                   inequality_call, raised, curr_int_sol, mip_sol, work_sol,
                   last_iter_cuts, main_tc, nlp_tc, pool, counter,
                   iter_log, last_check, terminated, solved, repeat_solved,
                   fix_called, regularization_mip_type, results>>

\* A bounding step that adds a bound constraint to the working model.
BoundedByConstraint(wm, c) ==
    IF c.single_tree
    THEN [wm EXCEPT !.constraints = Append(@, [nonlinear |-> FALSE, active |-> TRUE])]
    ELSE wm

\* Lines 372-373: add_var_bound gives bounds to the unbounded variables of
\* the working model in single-tree mode.
BoundedForSingleTree(wm, c) ==
    IF c.single_tree THEN [wm EXCEPT !.var_bounds = TRUE] ELSE wm

\* Lines 376-377: next(component_data_objects(Objective, active=True)).deactivate().
FirstActiveObjectiveDeactivated(m) ==
    IF m.objective_list_0 = "active" THEN [m EXCEPT !.objective_list_0 = "inactive"]
    ELSE IF m.objective = "active" THEN [m EXCEPT !.objective = "inactive"]
    ELSE m

\* A clone whose nonlinear constraints are deactivated.
NonlinearDeactivated(cons) ==
    [i \in 1..Len(cons) |->
        IF cons[i].nonlinear THEN [cons[i] EXCEPT !.active = FALSE] ELSE cons[i]]

\* Line 375: self.working_model.clone() copies the constraints with their
\* activation; no statement of lines 367-391 deactivates a constraint.
ClonedConstraints(cons) == cons

\* Lines 375-381: the main model is a clone of the working model with its
\* active objective deactivated and, when duals are calculated, its dual
\* suffix deactivated.
MainModelOf(wm, c) ==
    LET m == FirstActiveObjectiveDeactivated(wm)
    IN [constraints |-> ClonedConstraints(wm.constraints),
        degree_handleable |-> wm.degree_handleable,
        objective_list_0 |-> m.objective_list_0,
        objective_constr |-> m.objective_constr,
        objective |-> m.objective,
        var_bounds |-> wm.var_bounds,
        dual |-> IF c.calculate_dual_at_solution THEN "inactive" ELSE "absent"]

\* A second collection that keeps the cuts of the first.
OaCutsKept == oa_cuts

\* Line 385: MindtPy.cuts.oa_cuts = ConstraintList(...), an empty collection.
NewOaCuts == <<>>

\* initialize_mip_problem, lines 367-391.
InitializeMipProblemAt(here, next) ==
    /\ pc = here
    /\ working_model' = BoundedForSingleTree(working_model, config)
    /\ mip' = MainModelOf(working_model', config)
    /\ oa_cuts' = NewOaCuts
    /\ pc' = next
    /\ UNCHANGED <<config, objective_sense, expressions, logical_call,
                   inequality_call, raised, mip_iter,
                   best_solution_found, primal_bound, dual_bound,
                   dual_bound_progress, should_terminate, integer_list,
                   curr_int_sol, mip_sol, work_sol, no_good_cuts, last_iter_cuts,
                   main_tc, nlp_tc, pool, counter, iter_log, last_check,
                   terminated, solved, repeat_solved, fix_called,
                   regularization_mip_type, results>>

\* Line 125.
InitializeMipProblem ==
    InitializeMipProblemAt("initialize_mip_problem", "initialization")

\* initialize_mip_problem called once more on the same working model.
InitializeMipProblemAgain ==
    InitializeMipProblemAt("initialization", "initialized_again")

\* Line 129: MindtPy_initialization may move the dual bound (relaxed NLP) and
\* may find a first incumbent.
MindtPyInitialization ==
    /\ pc = "initialization"
    /\ dual_bound' \in {InitialDualBound} \cup ObjValues
    /\ \/ UNCHANGED <<best_solution_found, primal_bound>>
       \/ /\ best_solution_found' = "found"
          /\ primal_bound' \in ObjValues
    /\ pc' = "loop_enter"
    /\ UNCHANGED <<config, objective_sense, expressions, logical_call,
                   working_model, mip, oa_cuts,
                   inequality_call, raised, mip_iter, dual_bound_progress,
                   should_terminate, integer_list, curr_int_sol, mip_sol,
                   work_sol, no_good_cuts, last_iter_cuts, main_tc, nlp_tc,
                   pool, counter, iter_log, last_check, terminated, solved,
                   repeat_solved, fix_called, regularization_mip_type, results>>

\* ------------------------------------------------ MindtPy_iteration_loop
\* A while condition that lets the counter reach past the limit.
LoopGuardInclusive == mip_iter <= config.iteration_limit

\* Line 172: the while condition.
LoopGuard == mip_iter < config.iteration_limit

\* A first solve of the iteration that is already the regularized one.
RegularizedFirst == TRUE

\* Line 176: solve_main(config) leaves regularization_problem at its default.
MainSolveRegularizationArg == FALSE

\* An infeasible branch without the break.
MainInfeasibleFallsThrough == "call_after_main_solve"

\* Line 184: the break that follows handle_main_infeasible.
AfterMainInfeasible == "after_loop"

\* A gate that does not look at the dual bound.
RegularizationGateWithoutBound ==
    /\ config.add_regularization # "None"
    /\ best_solution_found # "None"
    /\ ~config.single_tree

\* Lines 196-198: when the regularized main problem is solved.
\* The gate without the single-tree test of line 196.
RegularizationGateInSingleTree ==
    /\ config.add_regularization # "None"
    /\ best_solution_found # "None"
    /\ dual_bound # dual_bound_progress[1]

RegularizationGate ==
    /\ config.add_regularization # "None"
    /\ best_solution_found # "None"
    /\ ~config.single_tree
    /\ dual_bound # dual_bound_progress[1]

\* A post-main check that does not look for cycling.
CyclingCheckOff == FALSE

\* Line 213: algorithm_should_terminate(config, check_cycling=True).
CheckCyclingAfterMain == TRUE

\* A post-subproblem check that looks for cycling.
CyclingCheckOn == TRUE

\* Line 227: algorithm_should_terminate(config, check_cycling=False).
CheckCyclingAfterSubproblem == FALSE

\* Line 276: algorithm_should_terminate(config, check_cycling=False).
CheckCyclingAfterPoolSubproblem == FALSE

\* Line 278: the break inside "for name, _ in solution_name_obj" leaves the
\* for loop, so control goes back to the while condition.
AfterPoolTermination == "while"

\* A gate that ignores should_terminate.
BoundCorrectionGateAlways ==
    /\ config.add_no_good_cuts \/ config.use_tabu_list
    /\ config.add_regularization = "None"

\* Line 320: when fix_dual_bound is called.
BoundCorrectionGate ==
    /\ config.add_no_good_cuts \/ config.use_tabu_list
    /\ ~should_terminate
    /\ config.add_regularization = "None"

\* algorithm_should_terminate: the transition rules in priority order; the
\* cycling rule is evaluated only when check_cycling is set.
CyclingDetected ==
    /\ work_sol \in Range(integer_list)
    /\ ~config.add_no_good_cuts
    /\ ~config.use_tabu_list

algorithm_should_terminate(check_cycling) ==
    IF should_terminate THEN "ERROR_STOP"
    ELSE IF mip_iter >= config.iteration_limit THEN "LIMIT_STOP"
    ELSE IF main_tc = "infeasible" THEN "MAIN_INFEASIBLE"
    ELSE IF BoundsConverged THEN "CONVERGED"
    ELSE IF check_cycling /\ CyclingDetected THEN "CYCLING_STOP"
    ELSE "RUNNING"

\* Rule 5: while running, the cycling rule records the current assignment in
\* the explored set.
ExploredAfterCheck(check_cycling) ==
    IF check_cycling /\ algorithm_should_terminate(check_cycling) = "RUNNING"
       /\ work_sol \notin Range(integer_list)
    THEN Append(integer_list, work_sol)
    ELSE integer_list

\* handle_nlp_subproblem_tc: a no-good cut excluding the fixed assignment is
\* added when the subproblem was solved or found infeasible.
CutsAfterSubproblem ==
    IF config.add_no_good_cuts /\ nlp_tc \in {"optimal", "infeasible"}
    THEN Append(no_good_cuts, [asg |-> work_sol, active |-> TRUE])
    ELSE no_good_cuts

\* A collection that puts the newest cut in front of the earlier ones.
OaCutsNewestFirst ==
    IF nlp_tc \in {"optimal", "infeasible"}
    THEN <<[iter |-> mip_iter, active |-> TRUE]>> \o oa_cuts
    ELSE oa_cuts

\* handle_nlp_subproblem_tc calls add_cuts (lines 394-409) when the
\* subproblem was solved or found infeasible: add_oa_cuts appends to the
\* collection a cut tagged with the iteration that created it.
OaCutsAfterSubproblem ==
    IF nlp_tc \in {"optimal", "infeasible"}
    THEN Append(oa_cuts, [iter |-> mip_iter, active |-> TRUE])
    ELSE oa_cuts

\* solution_name_obj.sort(key=itemgetter(1), reverse=...), lines 247-248:
\* a stable sort on the objective value.
RECURSIVE InsertSorted(_, _, _)
InsertSorted(e, s, reverse) ==
    IF s = <<>> THEN <<e>>
    ELSE LET before == IF reverse THEN s[1].obj >= e.obj ELSE s[1].obj <= e.obj
         IN IF before THEN <<s[1]>> \o InsertSorted(e, Tail(s), reverse)
            ELSE <<e>> \o s

RECURSIVE SortPool(_, _)
SortPool(s, reverse) ==
    IF s = <<>> THEN <<>>
    ELSE InsertSorted(s[Len(s)], SortPool(SubSeq(s, 1, Len(s) - 1), reverse), reverse)

\* Line 250: "for name, _ in solution_name_obj" reads the names only.
PoolNames(s) == [i \in 1..Len(s) |-> s[i].asg]

\* Line 248: reverse=self.objective_sense == maximize.
SortAlwaysAscending == FALSE

SortReverse == objective_sense = "maximize"

\* A cap that lets one more entry through.
PoolCapExceeded == counter > config.num_solution_iteration

\* Line 280: counter >= config.num_solution_iteration.
PoolCapReached == counter >= config.num_solution_iteration

\* Lines 254-261: the entry is copied to the working model, its integer
\* assignment is read and looked up in set(self.integer_list).
PoolEntryNeverExplored == FALSE

PoolEntryExploredInverted == Head(pool).asg \notin Range(integer_list)

PoolEntryExplored == Head(pool).asg \in Range(integer_list)

\* An adapter call (solve_main, solve_subproblem) that ends with an exception
\* instead of a result.  Lines 172-321 and 57-151 hold no try statement: the
\* exception leaves MindtPy_iteration_loop and solve.
AdapterRaises(call) ==
    /\ raised' = "SolverError"
    /\ pc' = "raised"
    /\ iter_log' = Log(call)
    /\ UNCHANGED <<config, objective_sense, expressions, logical_call,
                   working_model, mip, oa_cuts,
                   inequality_call, mip_iter, best_solution_found,
                   primal_bound, dual_bound, dual_bound_progress, should_terminate,
                   integer_list, curr_int_sol, mip_sol, work_sol, no_good_cuts,
                   last_iter_cuts, main_tc, nlp_tc, pool, counter, last_check,
                   terminated, solved, repeat_solved, fix_called,
                   regularization_mip_type, results>>

\* A flag that starts as if the last iteration had added cuts.
LastIterCutsAssumed == TRUE

\* Line 171: last_iter_cuts = False.
LastIterCutsAtEntry == FALSE

\* Line 171.
LoopEnter ==
    /\ pc = "loop_enter"
    /\ last_iter_cuts' = LastIterCutsAtEntry
    /\ pc' = "while"
    /\ UNCHANGED <<config, objective_sense, expressions, logical_call,
                   working_model, mip, oa_cuts,
                   inequality_call, raised, mip_iter, best_solution_found,
                   primal_bound, dual_bound, dual_bound_progress, should_terminate,
                   integer_list, curr_int_sol, mip_sol, work_sol, no_good_cuts,
                   main_tc, nlp_tc, pool, counter, iter_log, last_check,
                   terminated, solved, repeat_solved, fix_called,
                   regularization_mip_type, results>>

\* Lines 172-174: the loop condition holds and a new iteration starts.
WhileEnter ==
    /\ pc = "while"
    /\ LoopGuard
    /\ iter_log' = <<>>
    /\ pc' = "solve_main"
    /\ UNCHANGED <<config, objective_sense, expressions, logical_call,
                   working_model, mip, oa_cuts,
                   inequality_call, raised, mip_iter, best_solution_found,
                   primal_bound, dual_bound, dual_bound_progress, should_terminate,
                   integer_list, curr_int_sol, mip_sol, work_sol, no_good_cuts,
                   last_iter_cuts, main_tc, nlp_tc, pool, counter,
                   last_check, terminated, solved, repeat_solved, fix_called,
                   regularization_mip_type, results>>

\* Line 172: the loop condition fails.
WhileExit ==
    /\ pc = "while"
    /\ ~LoopGuard
    /\ pc' = "after_loop"
    /\ UNCHANGED <<config, objective_sense, expressions, logical_call,
                   working_model, mip, oa_cuts,
                   inequality_call, raised, mip_iter, best_solution_found,
                   primal_bound, dual_bound, dual_bound_progress, should_terminate,
                   integer_list, curr_int_sol, mip_sol, work_sol, no_good_cuts,
                   last_iter_cuts, main_tc, nlp_tc, pool, counter,
                   iter_log, last_check, terminated, solved, repeat_solved,
                   fix_called, regularization_mip_type, results>>

\* Line 176 in sequential mode: one main-problem solve.  The adapter counts
\* the iteration and reports no result, optimal (with an integer assignment no
\* active cut excludes), infeasible or another condition.
SolveMain ==
    /\ pc = "solve_main"
    /\ ~config.single_tree
    /\ \/ /\ mip_iter' = IF MainSolveRegularizationArg THEN mip_iter ELSE mip_iter + 1
          /\ iter_log' = Log(IF MainSolveRegularizationArg
                             THEN "solve_main_regularization" ELSE "solve_main")
          /\ \/ /\ main_tc' \in {"None", "infeasible", "other"}
                /\ UNCHANGED mip_sol
             \/ /\ main_tc' = "optimal"
                /\ mip_sol' \in MainSolutions
          /\ pc' = "main_result"
          /\ UNCHANGED <<config, objective_sense, expressions, logical_call,
                         working_model, mip, oa_cuts,
                         inequality_call, raised, best_solution_found,
                         primal_bound, dual_bound, dual_bound_progress, should_terminate,
                         integer_list, curr_int_sol, work_sol, no_good_cuts,
                         last_iter_cuts, nlp_tc, pool, counter, last_check,
                         terminated, solved, repeat_solved, fix_called,
                         regularization_mip_type, results>>
       \/ AdapterRaises(IF MainSolveRegularizationArg
                        THEN "solve_main_regularization" ELSE "solve_main")

\* Line 176 in single-tree mode: the whole tree search; the lazy-constraint
\* callback solves subproblems, records assignments and moves the bounds.
SolveMainSingleTree ==
    /\ pc = "solve_main"
    /\ config.single_tree
    /\ \/ /\ mip_iter' = mip_iter + 1
          /\ iter_log' = Log("solve_main")
          /\ \/ /\ main_tc' \in {"None", "infeasible", "other"}
                /\ UNCHANGED mip_sol
             \/ /\ main_tc' = "optimal"
                /\ mip_sol' \in Assignments
          /\ integer_list' \in ExploredChoices
          /\ oa_cuts' \in {oa_cuts, Append(oa_cuts, [iter |-> mip_iter', active |-> TRUE])}
          /\ \/ UNCHANGED <<best_solution_found, primal_bound>>
             \/ /\ best_solution_found' = "found"
                /\ primal_bound' \in ObjValues
          /\ \E v \in ObjValues \cup {dual_bound} :
                /\ dual_bound' = UpdatedDualBound(v)
                /\ dual_bound_progress' = Append(dual_bound_progress, dual_bound')
          /\ pc' = "main_result"
          /\ UNCHANGED <<config, objective_sense, expressions, logical_call,
                         working_model, mip,
                         inequality_call, raised, should_terminate,
                         curr_int_sol, work_sol, no_good_cuts, last_iter_cuts, nlp_tc,
                         pool, counter, last_check, terminated, solved,
                         repeat_solved, fix_called, regularization_mip_type, results>>
       \/ AdapterRaises("solve_main")

\* Lines 191-193: solve_main returned no result.
MainResultNone ==
    /\ pc = "main_result"
    /\ main_tc = "None"
    /\ pc' = "after_loop"
    /\ UNCHANGED <<config, objective_sense, expressions, logical_call,
                   working_model, mip, oa_cuts,
                   inequality_call, raised, mip_iter, best_solution_found,
                   primal_bound, dual_bound, dual_bound_progress, should_terminate,
                   integer_list, curr_int_sol, mip_sol, work_sol, no_good_cuts,
                   last_iter_cuts, main_tc, nlp_tc, pool, counter,
                   iter_log, last_check, terminated, solved, repeat_solved,
                   fix_called, regularization_mip_type, results>>

\* Lines 177-178 in single-tree mode: the outcome handlers and the callback
\* are skipped.
MainResultSingleTree ==
    /\ pc = "main_result"
    /\ main_tc # "None"
    /\ config.single_tree
    /\ pc' = "regularization_gate"
    /\ UNCHANGED <<config, objective_sense, expressions, logical_call,
                   working_model, mip, oa_cuts,
                   inequality_call, raised, mip_iter, best_solution_found,
                   primal_bound, dual_bound, dual_bound_progress, should_terminate,
                   integer_list, curr_int_sol, mip_sol, work_sol, no_good_cuts,
                   last_iter_cuts, main_tc, nlp_tc, pool, counter,
                   iter_log, last_check, terminated, solved, repeat_solved,
                   fix_called, regularization_mip_type, results>>

\* Lines 179-180: handle_main_optimal moves the dual bound, records it and
\* copies the solution to the working model.
HandleMainOptimal ==
    /\ pc = "main_result"
    /\ ~config.single_tree
    /\ main_tc = "optimal"
    /\ \E v \in ObjValues :
          /\ dual_bound' = UpdatedDualBound(v)
          /\ dual_bound_progress' = Append(dual_bound_progress, dual_bound')
    /\ work_sol' = mip_sol
    /\ iter_log' = Log("handle_main_optimal")
    /\ pc' = "call_after_main_solve"
    /\ UNCHANGED <<config, objective_sense, expressions, logical_call,
                   working_model, mip, oa_cuts,
                   inequality_call, raised, mip_iter, should_terminate,
                   best_solution_found, primal_bound,
                   integer_list, curr_int_sol, mip_sol, no_good_cuts,
                   last_iter_cuts, main_tc, nlp_tc, pool, counter,
                   last_check, terminated, solved, repeat_solved, fix_called,
                   regularization_mip_type, results>>

\* Lines 181-184: handle_main_infeasible, last_iter_cuts = True, break.
HandleMainInfeasible ==
    /\ pc = "main_result"
    /\ ~config.single_tree
    /\ main_tc = "infeasible"
    /\ iter_log' = Log("handle_main_infeasible")
    /\ last_iter_cuts' = TRUE
    /\ pc' = AfterMainInfeasible
    /\ UNCHANGED <<config, objective_sense, expressions, logical_call,
                   working_model, mip, oa_cuts,
                   inequality_call, raised, mip_iter, best_solution_found,
                   primal_bound, dual_bound, dual_bound_progress, should_terminate,
                   integer_list, curr_int_sol, mip_sol, work_sol, no_good_cuts,
                   main_tc, nlp_tc, pool, counter, last_check,
                   terminated, solved, repeat_solved, fix_called,
                   regularization_mip_type, results>>

\* Lines 185-187: handle_main_other_conditions; the default fallback policy
\* reports the outcome and asks the loop to stop.
HandleMainOther ==
    /\ pc = "main_result"
    /\ ~config.single_tree
    /\ main_tc = "other"
    /\ should_terminate' = TRUE
    /\ iter_log' = Log("handle_main_other_conditions")
    /\ pc' = "call_after_main_solve"
    /\ UNCHANGED <<config, objective_sense, expressions, logical_call,
                   working_model, mip, oa_cuts,
                   inequality_call, raised, mip_iter, best_solution_found,
                   primal_bound, dual_bound, dual_bound_progress, integer_list,
                   curr_int_sol, mip_sol, work_sol, no_good_cuts, last_iter_cuts,
                   main_tc, nlp_tc, pool, counter, last_check,
                   terminated, solved, repeat_solved, fix_called,
                   regularization_mip_type, results>>

\* Lines 188-190: the post-main callback.
CallAfterMainSolve ==
    /\ pc = "call_after_main_solve"
    /\ iter_log' = Log("call_after_main_solve")
    /\ pc' = "regularization_gate"
    /\ UNCHANGED <<config, objective_sense, expressions, logical_call,
                   working_model, mip, oa_cuts,
                   inequality_call, raised, mip_iter, best_solution_found,
                   primal_bound, dual_bound, dual_bound_progress, should_terminate,
                   integer_list, curr_int_sol, mip_sol, work_sol, no_good_cuts,
                   last_iter_cuts, main_tc, nlp_tc, pool, counter,
                   last_check, terminated, solved, repeat_solved, fix_called,
                   regularization_mip_type, results>>

\* Lines 196-198: the two nested conditions in front of the regularized solve.
RegularizationGateStep ==
    /\ pc = "regularization_gate"
    /\ pc' = IF RegularizationGate THEN "solve_main_regularization"
             ELSE "single_tree_regularization"
    /\ UNCHANGED <<config, objective_sense, expressions, logical_call,
                   working_model, mip, oa_cuts,
                   inequality_call, raised, mip_iter, best_solution_found,
                   primal_bound, dual_bound, dual_bound_progress, should_terminate,
                   integer_list, curr_int_sol, mip_sol, work_sol, no_good_cuts,
                   last_iter_cuts, main_tc, nlp_tc, pool, counter,
                   iter_log, last_check, terminated, solved, repeat_solved,
                   fix_called, regularization_mip_type, results>>

\* Lines 199-200: the regularized main solve and handle_regularization_main_tc,
\* which copies an optimal regularized solution to the working model.
SolveMainRegularization ==
    /\ pc = "solve_main_regularization"
    /\ \/ /\ iter_log' = iter_log \o <<"solve_main_regularization",
                                       "handle_regularization_main_tc">>
          /\ \/ UNCHANGED <<mip_sol, work_sol>>
             \/ \E a \in MainSolutions :
                   /\ mip_sol' = a
                   /\ work_sol' = a
          /\ pc' = "single_tree_regularization"
          /\ UNCHANGED <<config, objective_sense, expressions, logical_call,
                         working_model, mip, oa_cuts,
                         inequality_call, raised, mip_iter, best_solution_found,
                         primal_bound, dual_bound, dual_bound_progress, should_terminate,
                         integer_list, curr_int_sol, no_good_cuts, last_iter_cuts,
                         main_tc, nlp_tc, pool, counter, last_check,
                         terminated, solved, repeat_solved, fix_called,
                         regularization_mip_type, results>>
       \/ AdapterRaises("solve_main_regularization")

\* Lines 203-210: in single-tree mode with regularization the final integer
\* assignment of the main model is read and copied to the working model.
SingleTreeRegularization ==
    /\ pc = "single_tree_regularization"
    /\ IF config.add_regularization # "None" /\ config.single_tree
       THEN /\ curr_int_sol' = mip_sol
            /\ work_sol' = mip_sol
            /\ pc' = IF mip_sol \notin Range(integer_list)
                     THEN "single_tree_solve_subproblem" ELSE "check_after_main"
       ELSE /\ pc' = "check_after_main"
            /\ UNCHANGED <<curr_int_sol, work_sol>>
    /\ UNCHANGED <<config, objective_sense, expressions, logical_call,
                   working_model, mip, oa_cuts,
                   inequality_call, raised, mip_iter, best_solution_found,
                   primal_bound, dual_bound, dual_bound_progress, should_terminate,
                   integer_list, mip_sol, no_good_cuts, last_iter_cuts, main_tc,
                   nlp_tc, pool, counter, iter_log, last_check,
                   terminated, solved, repeat_solved, fix_called,
                   regularization_mip_type, results>>

\* solve_subproblem(config): the NLP with the working model's integer
\* assignment fixed; it reports optimal, infeasible or another condition.
SolveSubproblemAt(here, next) ==
    /\ pc = here
    /\ \/ /\ nlp_tc' \in {"optimal", "infeasible", "other"}
          /\ solved' = solved \cup {work_sol}
          /\ repeat_solved' = (repeat_solved \/ work_sol \in solved)
          /\ iter_log' = Log("solve_subproblem")
          /\ pc' = next
          /\ UNCHANGED <<config, objective_sense, expressions, logical_call,
                         working_model, mip, oa_cuts,
                         inequality_call, raised, mip_iter, best_solution_found,
                         primal_bound, dual_bound, dual_bound_progress, should_terminate,
                         integer_list, curr_int_sol, mip_sol, work_sol, no_good_cuts,
                         last_iter_cuts, main_tc, pool, counter, last_check,
                         terminated, fix_called, regularization_mip_type, results>>
       \/ AdapterRaises("solve_subproblem")

\* handle_nlp_subproblem_tc: an optimal subproblem may improve the incumbent;
\* cuts are added; another condition is reported and changes nothing.  The
\* result object (fixed_nlp_result) is not read again.
HandleNlpSubproblemAt(here, next) ==
    /\ pc = here
    /\ IF nlp_tc = "optimal"
       THEN \E v \in ObjValues :
               IF ImprovesPrimal(v)
               THEN /\ primal_bound' = v
                    /\ best_solution_found' = "found"
               ELSE UNCHANGED <<primal_bound, best_solution_found>>
       ELSE UNCHANGED <<primal_bound, best_solution_found>>
    /\ no_good_cuts' = CutsAfterSubproblem
    /\ oa_cuts' = OaCutsAfterSubproblem
    /\ nlp_tc' = "None"
    /\ iter_log' = Log("handle_nlp_subproblem_tc")
    /\ pc' = next
    /\ UNCHANGED <<config, objective_sense, expressions, logical_call,
                   working_model, mip,
                   inequality_call, raised, mip_iter, dual_bound,
                   dual_bound_progress, should_terminate, integer_list,
                   curr_int_sol, mip_sol, work_sol, last_iter_cuts, main_tc,
                   pool, counter, last_check, terminated,
                   solved, repeat_solved, fix_called, regularization_mip_type,
                   results>>

\* config.call_after_subproblem_solve(fixed_nlp).
CallAfterSubproblemSolveAt(here, next) ==
    /\ pc = here
    /\ iter_log' = Log("call_after_subproblem_solve")
    /\ pc' = next
    /\ UNCHANGED <<config, objective_sense, expressions, logical_call,
                   working_model, mip, oa_cuts,
                   inequality_call, raised, mip_iter, best_solution_found,
                   primal_bound, dual_bound, dual_bound_progress, should_terminate,
                   integer_list, curr_int_sol, mip_sol, work_sol, no_good_cuts,
                   last_iter_cuts, main_tc, nlp_tc, pool, counter,
                   last_check, terminated, solved, repeat_solved, fix_called,
                   regularization_mip_type, results>>

\* Lines 211-212.
SingleTreeSolveSubproblem ==
    SolveSubproblemAt("single_tree_solve_subproblem", "single_tree_handle_nlp")

SingleTreeHandleNlp ==
    HandleNlpSubproblemAt("single_tree_handle_nlp", "check_after_main")

\* Lines 213-215: the termination check that follows the main solve.
CheckAfterMain ==
    /\ pc = "check_after_main"
    /\ LET r == algorithm_should_terminate(CheckCyclingAfterMain)
       IN /\ last_check' = [site |-> "main", reason |-> r]
          /\ integer_list' = ExploredAfterCheck(CheckCyclingAfterMain)
          /\ IF r # "RUNNING"
             THEN /\ last_iter_cuts' = FALSE
                  /\ terminated' = TRUE
                  /\ pc' = "after_loop"
             ELSE /\ pc' = IF config.single_tree THEN "while"
                           ELSE IF ~config.solution_pool THEN "solve_subproblem"
                           ELSE "pool_fetch"
                  /\ UNCHANGED <<last_iter_cuts, terminated>>
    /\ iter_log' = Log("algorithm_should_terminate")
    /\ UNCHANGED <<config, objective_sense, expressions, logical_call,
                   working_model, mip, oa_cuts,
                   inequality_call, raised, mip_iter, best_solution_found,
                   primal_bound, dual_bound, dual_bound_progress, should_terminate,
                   curr_int_sol, mip_sol, work_sol, no_good_cuts, main_tc, nlp_tc,
                   pool, counter, solved, repeat_solved, fix_called,
                   regularization_mip_type, results>>

\* Lines 220-225.
\* A subproblem solve whose result goes to the callback without its handler.
SolveSubproblemUnhandled ==
    SolveSubproblemAt("solve_subproblem", "call_after_subproblem_solve")

SolveSubproblem ==
    SolveSubproblemAt("solve_subproblem", "handle_nlp_subproblem_tc")

HandleNlpSubproblem ==
    HandleNlpSubproblemAt("handle_nlp_subproblem_tc", "call_after_subproblem_solve")

CallAfterSubproblemSolve ==
    CallAfterSubproblemSolveAt("call_after_subproblem_solve", "check_after_subproblem")

\* Lines 227-229: the termination check that follows the subproblem solve.
CheckAfterSubproblem ==
    /\ pc = "check_after_subproblem"
    /\ LET r == algorithm_should_terminate(CheckCyclingAfterSubproblem)
       IN /\ last_check' = [site |-> "subproblem", reason |-> r]
          /\ integer_list' = ExploredAfterCheck(CheckCyclingAfterSubproblem)
          /\ IF r # "RUNNING"
             THEN /\ last_iter_cuts' = TRUE
                  /\ terminated' = TRUE
                  /\ pc' = "after_loop"
             ELSE /\ pc' = "while"
                  /\ UNCHANGED <<last_iter_cuts, terminated>>
    /\ iter_log' = Log("algorithm_should_terminate")
    /\ UNCHANGED <<config, objective_sense, expressions, logical_call,
                   working_model, mip, oa_cuts,
                   inequality_call, raised, mip_iter, best_solution_found,
                   primal_bound, dual_bound, dual_bound_progress, should_terminate,
                   curr_int_sol, mip_sol, work_sol, no_good_cuts, main_tc, nlp_tc,
                   pool, counter, solved, repeat_solved, fix_called,
                   regularization_mip_type, results>>

\* Lines 231-249: the solutions of the pool are read with their objective
\* values and sorted; counter = 0.
PoolFetch ==
    /\ pc = "pool_fetch"
    /\ \E n \in 1..MaxPool :
          \E names \in {q \in [1..n -> Assignments] : PoolInOrder(q)} :
             \E objs \in [1..n -> ObjValues] :
                LET solution_name_obj ==
                       [i \in 1..n |-> [asg |-> names[i], obj |-> objs[i]]]
                IN pool' = SortPool(solution_name_obj, SortReverse)
    /\ counter' = 0
    /\ pc' = "pool_for"
    /\ UNCHANGED <<config, objective_sense, expressions, logical_call,
                   working_model, mip, oa_cuts,
                   inequality_call, raised, mip_iter, best_solution_found,
                   primal_bound, dual_bound, dual_bound_progress, should_terminate,
                   integer_list, curr_int_sol, mip_sol, work_sol, no_good_cuts,
                   last_iter_cuts, main_tc, nlp_tc, iter_log, last_check,
                   terminated, solved, repeat_solved, fix_called,
                   regularization_mip_type, results>>

\* Line 250: the for loop is exhausted.
PoolExhausted ==
    /\ pc = "pool_for"
    /\ pool = <<>>
    /\ counter' = 0
    /\ pc' = "while"
    /\ UNCHANGED <<config, objective_sense, expressions, logical_call,
                   working_model, mip, oa_cuts,
                   inequality_call, raised, mip_iter, best_solution_found,
                   primal_bound, dual_bound, dual_bound_progress, should_terminate,
                   integer_list, curr_int_sol, mip_sol, work_sol, no_good_cuts,
                   last_iter_cuts, main_tc, nlp_tc, pool, iter_log, last_check,
                   terminated, solved, repeat_solved, fix_called,
                   regularization_mip_type, results>>

\* Lines 250-253, 268: the first solved entry is the main problem's own
\* solution, already in the working model.
PoolFirst ==
    /\ pc = "pool_for"
    /\ pool # <<>>
    /\ counter < 1
    /\ pool' = Tail(pool)
    /\ counter' = counter + 1
    /\ pc' = "pool_solve_subproblem"
    /\ UNCHANGED <<config, objective_sense, expressions, logical_call,
                   working_model, mip, oa_cuts,
                   inequality_call, raised, mip_iter, best_solution_found,
                   primal_bound, dual_bound, dual_bound_progress, should_terminate,
                   integer_list, curr_int_sol, mip_sol, work_sol, no_good_cuts,
                   last_iter_cuts, main_tc, nlp_tc, iter_log, last_check,
                   terminated, solved, repeat_solved, fix_called,
                   regularization_mip_type, results>>

\* Lines 253-264: an entry whose assignment was explored is skipped.
PoolSkip ==
    /\ pc = "pool_for"
    /\ pool # <<>>
    /\ counter >= 1
    /\ PoolEntryExplored
    /\ work_sol' = Head(pool).asg
    /\ curr_int_sol' = Head(pool).asg
    /\ pool' = Tail(pool)
    /\ UNCHANGED <<config, objective_sense, expressions, logical_call,
                   working_model, mip, oa_cuts,
                   inequality_call, pc, raised, mip_iter,
                   best_solution_found, primal_bound, dual_bound,
                   dual_bound_progress, should_terminate, integer_list, mip_sol,
                   no_good_cuts, last_iter_cuts, main_tc, nlp_tc, counter,
                   iter_log, last_check, terminated, solved, repeat_solved,
                   fix_called, regularization_mip_type, results>>

\* Lines 253-268: a new assignment is recorded and its subproblem is solved.
PoolTake ==
    /\ pc = "pool_for"
    /\ pool # <<>>
    /\ counter >= 1
    /\ ~PoolEntryExplored
    /\ work_sol' = Head(pool).asg
    /\ curr_int_sol' = Head(pool).asg
    /\ integer_list' = Append(integer_list, Head(pool).asg)
    /\ pool' = Tail(pool)
    /\ counter' = counter + 1
    /\ pc' = "pool_solve_subproblem"
    /\ UNCHANGED <<config, objective_sense, expressions, logical_call,
                   working_model, mip, oa_cuts,
                   inequality_call, raised, mip_iter, best_solution_found,
                   primal_bound, dual_bound, dual_bound_progress, should_terminate,
                   mip_sol, no_good_cuts, last_iter_cuts, main_tc, nlp_tc,
                   iter_log, last_check, terminated, solved, repeat_solved,
                   fix_called, regularization_mip_type, results>>

\* Lines 269-274.
PoolSolveSubproblem ==
    SolveSubproblemAt("pool_solve_subproblem", "pool_handle_nlp")

PoolHandleNlp ==
    HandleNlpSubproblemAt("pool_handle_nlp", "pool_call_after_subproblem_solve")

PoolCallAfterSubproblemSolve ==
    CallAfterSubproblemSolveAt("pool_call_after_subproblem_solve", "pool_check")

\* Lines 276-281: the termination check of the pool branch, then the
\* per-iteration exploration cap.  Both breaks leave the for loop, whose
\* locals are dead from then on.
PoolCheck ==
    /\ pc = "pool_check"
    /\ LET r == algorithm_should_terminate(CheckCyclingAfterPoolSubproblem)
       IN /\ last_check' = [site |-> "pool", reason |-> r]
          /\ integer_list' = ExploredAfterCheck(CheckCyclingAfterPoolSubproblem)
          /\ IF r # "RUNNING"
             THEN /\ last_iter_cuts' = TRUE
                  /\ terminated' = TRUE
                  /\ pc' = AfterPoolTermination
                  /\ pool' = <<>>
                  /\ counter' = 0
             ELSE IF PoolCapReached
             THEN /\ pc' = "while"
                  /\ pool' = <<>>
                  /\ counter' = 0
                  /\ UNCHANGED <<last_iter_cuts, terminated>>
             ELSE /\ pc' = "pool_for"
                  /\ UNCHANGED <<last_iter_cuts, terminated, pool, counter>>
    /\ iter_log' = Log("algorithm_should_terminate")
    /\ UNCHANGED <<config, objective_sense, expressions, logical_call,
                   working_model, mip, oa_cuts,
                   inequality_call, raised, mip_iter, best_solution_found,
                   primal_bound, dual_bound, dual_bound_progress, should_terminate,
                   curr_int_sol, mip_sol, work_sol, no_good_cuts, main_tc, nlp_tc,
                   solved, repeat_solved, fix_called, regularization_mip_type,
                   results>>

\* ------------------------------------------------------- bound correction
\* Lines 318-321: fix_dual_bound(config, last_iter_cuts) is called or not.
AfterLoop ==
    /\ pc = "after_loop"
    /\ IF BoundCorrectionGate
       THEN /\ fix_called' = TRUE
            /\ pc' = "fix_dual_bound"
       ELSE /\ pc' = "loop_return"
            /\ UNCHANGED fix_called
    /\ UNCHANGED <<config, objective_sense, expressions, logical_call,
                   working_model, mip, oa_cuts,
                   inequality_call, raised, mip_iter, best_solution_found,
                   primal_bound, dual_bound, dual_bound_progress, should_terminate,
                   integer_list, curr_int_sol, mip_sol, work_sol, no_good_cuts,
                   last_iter_cuts, main_tc, nlp_tc, pool, counter,
                   iter_log, last_check, terminated, solved, repeat_solved,
                   regularization_mip_type, results>>

\* fix_dual_bound: bound correction first deactivates the most recent
\* no-good/tabu cut.
FixDualBound ==
    /\ pc = "fix_dual_bound"
    /\ pc' = "deactivate_no_good_cuts"
    /\ UNCHANGED <<config, objective_sense, expressions, logical_call,
                   working_model, mip, oa_cuts,
                   inequality_call, raised, mip_iter, best_solution_found,
                   primal_bound, dual_bound, dual_bound_progress, should_terminate,
                   integer_list, curr_int_sol, mip_sol, work_sol, no_good_cuts,
                   last_iter_cuts, main_tc, nlp_tc, pool, counter,
                   iter_log, last_check, terminated, solved, repeat_solved,
                   fix_called, regularization_mip_type, results>>

\* A ConstraintList is indexed from 1 to its length; any other index raises
\* KeyError.
ConstraintListHas(cuts, i) == i \in 1..Len(cuts)

\* Line 416: the index no_good_cuts[len(no_good_cuts)].
LastCutIndex(cuts) == Len(cuts)

\* Lines 415-416: the cut at that index is deactivated.
DeactivatedCuts(cuts) ==
    IF config.add_no_good_cuts
    THEN [cuts EXCEPT ![LastCutIndex(cuts)].active = FALSE]
    ELSE cuts

\* Lines 417-418: self.integer_list[:-1].
TabuEvicted(list) ==
    IF config.use_tabu_list THEN SubSeq(list, 1, Len(list) - 1) ELSE list

\* deactivate_no_good_cuts_when_fixing_bound, lines 412-418.  The lookup of
\* line 416 raises when the index is not in the collection, and the exception
\* leaves solve.
DeactivateNoGoodCuts ==
    /\ pc = "deactivate_no_good_cuts"
    /\ IF config.add_no_good_cuts
          /\ ~ConstraintListHas(no_good_cuts, LastCutIndex(no_good_cuts))
       THEN /\ raised' = "KeyError"
            /\ pc' = "raised"
            /\ UNCHANGED <<no_good_cuts, integer_list>>
       ELSE /\ no_good_cuts' = DeactivatedCuts(no_good_cuts)
            /\ integer_list' = TabuEvicted(integer_list)
            /\ pc' = "rederive_dual_bound"
            /\ UNCHANGED raised
    /\ UNCHANGED <<config, objective_sense, expressions, logical_call,
                   working_model, mip, oa_cuts,
                   inequality_call, mip_iter, best_solution_found,
                   primal_bound, dual_bound, dual_bound_progress, should_terminate,
                   curr_int_sol, mip_sol, work_sol, last_iter_cuts, main_tc,
                   nlp_tc, pool, counter, iter_log, last_check,
                   terminated, solved, repeat_solved, fix_called,
                   regularization_mip_type, results>>

\* fix_dual_bound: the dual bound is re-derived without the deactivated cut
\* and reported.
RederiveDualBound ==
    /\ pc = "rederive_dual_bound"
    /\ dual_bound' \in {dual_bound} \cup ObjValues
    /\ pc' = "loop_return"
    /\ UNCHANGED <<config, objective_sense, expressions, logical_call,
                   working_model, mip, oa_cuts,
                   inequality_call, raised, mip_iter, best_solution_found,
                   primal_bound, dual_bound_progress, should_terminate,
                   integer_list, curr_int_sol, mip_sol, work_sol, no_good_cuts,
                   last_iter_cuts, main_tc, nlp_tc, pool, counter,
                   iter_log, last_check, terminated, solved, repeat_solved,
                   fix_called, regularization_mip_type, results>>

\* Lines 322 and 135-151: the loop returns, solve loads the solution, updates
\* the results object and returns it.
LoopReturn ==
    /\ pc = "loop_return"
    /\ results' = "results"
    /\ pc' = "returned"
    /\ UNCHANGED <<config, objective_sense, expressions, logical_call,
                   working_model, mip, oa_cuts,
                   inequality_call, raised, mip_iter, best_solution_found,
                   primal_bound, dual_bound, dual_bound_progress, should_terminate,
                   integer_list, curr_int_sol, mip_sol, work_sol, no_good_cuts,
                   last_iter_cuts, main_tc, nlp_tc, pool, counter,
                   iter_log, last_check, terminated, solved, repeat_solved,
                   fix_called, regularization_mip_type>>

\* ------------------------------------------------------------ specification
\* The options of one solve call.  The options check_config reads but the loop
\* does not are at their defaults; a solution pool needs a persistent solver,
\* and the options only the pool and single-tree branches read vary only
\* where those branches run.
Configs ==
    {c \in [add_regularization : {"None", "level_L1"},
            single_tree : BOOLEAN,
            solution_pool : BOOLEAN,
            add_no_good_cuts : BOOLEAN,
            use_tabu_list : BOOLEAN,
            iteration_limit : 0..MaxIter,
            num_solution_iteration : 1..MaxPool,
            mip_solver : {"glpk", "cplex_persistent"},
            mip_regularization_solver : {"None"},
            threads : {0},
            regularization_mip_threads : {0},
            calculate_dual_at_solution : {FALSE},
            add_cuts_at_incumbent : {FALSE},
            reduce_level_coef : {FALSE},
            use_bb_tree_incumbent : {FALSE},
            add_slack : {FALSE},
            heuristic_nonconvex : {FALSE},
            equality_relaxation : {FALSE},
            init_strategy : {"rNLP"},
            move_objective : {FALSE}] :
        /\ c.solution_pool => c.mip_solver \in PersistentSolvers
        /\ ~c.solution_pool /\ ~c.single_tree => c.mip_solver = "glpk"
        /\ ~c.solution_pool => c.num_solution_iteration = 1}

Init ==
    /\ config \in Configs
    /\ objective_sense \in {"minimize", "maximize"}
    /\ pc = "check_config"
    /\ raised = "none"
    /\ mip_iter = 0
    /\ best_solution_found = "None"
    /\ primal_bound = InitialPrimalBound
    /\ dual_bound = InitialDualBound
    /\ dual_bound_progress = <<InitialDualBound>>
    /\ should_terminate = FALSE
    /\ integer_list = <<>>
    /\ curr_int_sol = NoSol
    /\ mip_sol = NoSol
    /\ work_sol = NoSol
    /\ no_good_cuts = <<>>
    /\ last_iter_cuts = FALSE
    /\ main_tc = "None"
    /\ nlp_tc = "None"
    /\ pool = <<>>
    /\ counter = 0
    /\ iter_log = <<>>
    /\ last_check = [site |-> "none", reason |-> "RUNNING"]
    /\ terminated = FALSE
    /\ solved = {}
    /\ repeat_solved = FALSE
    /\ fix_called = FALSE
    /\ regularization_mip_type = "unset"
    /\ results = "pending"
    /\ working_model = SampleModel
    /\ mip = "None"
    /\ oa_cuts = <<>>
    /\ inequality_call = "None"
    /\ expressions = NoExpressions
    /\ logical_call = NoCall

Next ==
    \/ CheckConfig
    \/ ModelInvalid
    \/ SetUp
    \/ InitializeMipProblem
    \/ MindtPyInitialization
    \/ LoopEnter
    \/ WhileEnter
    \/ WhileExit
    \/ SolveMain
    \/ SolveMainSingleTree
    \/ MainResultNone
    \/ MainResultSingleTree
    \/ HandleMainOptimal
    \/ HandleMainInfeasible
    \/ HandleMainOther
    \/ CallAfterMainSolve
    \/ RegularizationGateStep
    \/ SolveMainRegularization
    \/ SingleTreeRegularization
    \/ SingleTreeSolveSubproblem
    \/ SingleTreeHandleNlp
    \/ CheckAfterMain
    \/ SolveSubproblem
    \/ HandleNlpSubproblem
    \/ CallAfterSubproblemSolve
    \/ CheckAfterSubproblem
    \/ PoolFetch
    \/ PoolExhausted
    \/ PoolFirst
    \/ PoolSkip
    \/ PoolTake
    \/ PoolSolveSubproblem
    \/ PoolHandleNlp
    \/ PoolCallAfterSubproblemSolve
    \/ PoolCheck
    \/ AfterLoop
    \/ FixDualBound
    \/ DeactivateNoGoodCuts
    \/ RederiveDualBound
    \/ LoopReturn

Spec == Init /\ [][Next]_vars

\* -------------------------------------------------------------- properties
\* Positions at which the next step issues a solver call.
MainSolvePcs == {"solve_main", "solve_main_regularization"}

SubproblemSolvePcs ==
    {"solve_subproblem", "pool_solve_subproblem", "single_tree_solve_subproblem"}

\* This step issues a main-problem or a subproblem solve.
IssuesSolve == pc \in (MainSolvePcs \cup SubproblemSolvePcs) /\ pc' # pc

\* Positions inside the body of the while loop.
LoopBodyPcs ==
    {"solve_main", "main_result", "call_after_main_solve", "regularization_gate",
     "solve_main_regularization", "single_tree_regularization",
     "single_tree_solve_subproblem", "single_tree_handle_nlp", "check_after_main",
     "solve_subproblem", "handle_nlp_subproblem_tc", "call_after_subproblem_solve",
     "check_after_subproblem", "pool_fetch", "pool_for", "pool_solve_subproblem",
     "pool_handle_nlp", "pool_call_after_subproblem_solve", "pool_check"}

\* The while loop has been left and line 320 has been evaluated.
PastBoundCorrectionGate ==
    \/ pc \in {"fix_dual_bound", "deactivate_no_good_cuts", "rederive_dual_bound",
               "loop_return"}
    \/ pc = "returned" /\ results = "results"
    \/ pc = "raised" /\ raised = "KeyError"

\* The while loop has been left.
LoopLeft == pc = "after_loop" \/ PastBoundCorrectionGate

CutsDisabled == ~config.add_no_good_cuts /\ ~config.use_tabu_list

\* C1: in sequential mode, with or without a solution pool, once a
\* termination check has returned True no step of the loop issues a
\* main-problem solve or a subproblem solve any more.
C1_TerminalAbsorbing ==
    [][(terminated /\ ~config.single_tree) => ~IssuesSolve]_vars

\* In solution-pool mode a main solve has been issued after the check of line
\* 276 returned True for converged bounds.
C1_SolveAfterPoolTermination ==
    /\ config.solution_pool /\ ~config.single_tree
    /\ terminated
    /\ last_check = [site |-> "pool", reason |-> "CONVERGED"]
    /\ pc = "main_result"
    /\ iter_log = <<"solve_main">>

\* C2: a plain main solve starts only while mip_iter < iteration_limit; the
\* regularized main solve of an iteration starts after that iteration has been
\* counted, so with mip_iter <= iteration_limit; with iteration_limit = 0 the
\* loop body is never entered and no main or subproblem solve is issued.
C2_LimitGuardsPlainMainSolve ==
    /\ pc = "solve_main" => mip_iter < config.iteration_limit
    /\ pc = "solve_main_regularization" =>
          mip_iter >= 1 /\ mip_iter <= config.iteration_limit
    /\ config.iteration_limit = 0 =>
          /\ pc \notin LoopBodyPcs
          /\ mip_iter = 0 /\ main_tc = "None" /\ solved = {}

\* C2 as stated: no main solve, plain or regularized, starts while
\* mip_iter >= iteration_limit.
C2_NoMainSolveAtLimit ==
    pc \in MainSolvePcs => mip_iter < config.iteration_limit

\* A regularized main solve is about to start with the counter at the limit.
C2_RegularizedSolveAtLimit ==
    /\ pc = "solve_main_regularization"
    /\ mip_iter = config.iteration_limit
    /\ iter_log[1] = "solve_main"

\* C3: in sequential mode, after the main solve reported infeasible the only
\* call of that iteration is handle_main_infeasible and the loop is left: the
\* post-main callback, the regularized solve, the subproblem solve and any
\* further main solve do not follow.
C3_MainInfeasibleExits ==
    (~config.single_tree /\ main_tc = "infeasible") =>
       \/ pc = "main_result" /\ iter_log = <<"solve_main">>
       \/ /\ LoopLeft
          /\ iter_log = <<"solve_main", "handle_main_infeasible">>
          /\ last_iter_cuts

\* The main problem was infeasible below the iteration limit and solve returned.
C3_InfeasibleBeforeLimit ==
    /\ ~config.single_tree
    /\ main_tc = "infeasible"
    /\ mip_iter < config.iteration_limit
    /\ solved # {}
    /\ pc = "returned"

\* C4: with add_no_good_cuts and use_tabu_list both disabled the subproblem
\* is never solved for an assignment it was already solved for: a main solve
\* that proposes such an assignment is stopped by the cycling rule of that
\* iteration's post-main check, before the repeat, so no repeat is ever more
\* than one iteration ahead of the cycling stop.
C4_CyclingStopsRepeat ==
    CutsDisabled =>
       /\ ~repeat_solved
       /\ pc \in SubproblemSolvePcs => work_sol \notin solved
       /\ (pc = "check_after_main" /\ algorithm_should_terminate(TRUE) = "RUNNING")
             => work_sol \notin solved

\* The main problem proposed an assignment the subproblem was already solved
\* for and the loop stopped on the cycling rule.
C4_CyclingStopReached ==
    /\ CutsDisabled
    /\ work_sol \in solved
    /\ last_check = [site |-> "main", reason |-> "CYCLING_STOP"]
    /\ pc = "after_loop"
    /\ mip_iter < config.iteration_limit

\* The termination checks that follow a subproblem solve (lines 227 and 276).
SubproblemCheckPcs == {"check_after_subproblem", "pool_check"}

\* C5: the termination checks that follow a subproblem solve are made with
\* check_cycling=False: they evaluate the stop flag, the iteration limit, the
\* main-infeasible rule and the gap rule in that order, never the cycling
\* rule, and they record no assignment; the check that follows the main solve
\* is the only one that evaluates the cycling rule.
C5_CyclingCheckedAfterMainOnly ==
    [][/\ (pc \in SubproblemCheckPcs /\ pc' # pc) =>
             /\ last_check'.reason = algorithm_should_terminate(FALSE)
             /\ last_check'.reason # "CYCLING_STOP"
             /\ integer_list' = integer_list
       /\ (pc = "check_after_main" /\ pc' # pc) =>
             last_check'.reason = algorithm_should_terminate(TRUE)]_vars

\* C5 as stated: the checks that follow a subproblem solve evaluate every
\* rule, the cycling rule included.
C5_CyclingCheckedAfterSubproblem ==
    [][(pc \in SubproblemCheckPcs /\ pc' # pc) =>
          last_check'.reason = algorithm_should_terminate(TRUE)]_vars

\* A check after a subproblem solve let the loop run on although the current
\* assignment is in the explored set and no cut excludes it.
C5_RunningDespiteExplored ==
    /\ pc = "while"
    /\ last_check = [site |-> "subproblem", reason |-> "RUNNING"]
    /\ CyclingDetected
    /\ algorithm_should_terminate(TRUE) = "CYCLING_STOP"

\* C6: a regularized main solve is issued only when add_regularization is
\* set, an incumbent exists and the dual bound differs from the first
\* recorded dual bound.
C6_RegularizedSolveGated ==
    pc = "solve_main_regularization" =>
       /\ config.add_regularization # "None"
       /\ best_solution_found # "None"
       /\ dual_bound # dual_bound_progress[1]

\* A regularized main solve has been issued.
C6_RegularizedSolveIssued ==
    /\ "solve_main_regularization" \in Range(iter_log)
    /\ config.add_regularization # "None"
    /\ best_solution_found # "None"
    /\ dual_bound # dual_bound_progress[1]

SubproblemCalls ==
    {"solve_subproblem", "handle_nlp_subproblem_tc", "call_after_subproblem_solve",
     "algorithm_should_terminate"}

\* C7: in sequential mode every iteration starts with a plain main solve; a
\* regularized main solve is the fourth call of its iteration, after the plain
\* solve, its outcome handler and the post-main callback; no main solve,
\* plain or regularized, follows a subproblem solve, a cut addition or a
\* termination check of the same iteration.
C7_PlainMainSolveFirst ==
    ~config.single_tree =>
       /\ iter_log # <<>> => iter_log[1] = "solve_main"
       /\ \A i \in 1..Len(iter_log) :
             /\ iter_log[i] = "solve_main" => i = 1
             /\ iter_log[i] = "solve_main_regularization" =>
                   /\ i = 4
                   /\ iter_log[2] \in {"handle_main_optimal",
                                       "handle_main_other_conditions"}
                   /\ iter_log[3] = "call_after_main_solve"
             /\ iter_log[i] \in SubproblemCalls =>
                   \A j \in (i + 1)..Len(iter_log) :
                      iter_log[j] \notin {"solve_main", "solve_main_regularization"}

\* An iteration with a regularized main solve between the plain main solve
\* and the subproblem solve.
C7_RegularizedBetween ==
    /\ ~config.single_tree
    /\ Len(iter_log) >= 7
    /\ iter_log[4] = "solve_main_regularization"
    /\ iter_log[7] = "solve_subproblem"

\* C8: after the loop, fix_dual_bound is called if and only if no-good cuts
\* or the tabu list are enabled, should_terminate is false and
\* add_regularization is None.
C8_BoundCorrectionGate ==
    PastBoundCorrectionGate =>
       (fix_called <=>
          /\ config.add_no_good_cuts \/ config.use_tabu_list
          /\ ~should_terminate
          /\ config.add_regularization = "None")

\* C8 as stated: the gate does not depend on any other option.
C8_BoundCorrectionAnyOption ==
    PastBoundCorrectionGate =>
       (fix_called <=>
          /\ config.add_no_good_cuts \/ config.use_tabu_list
          /\ ~should_terminate)

\* With regularization set the loop ended without should_terminate, cuts
\* are enabled and fix_dual_bound was not called.
C8_SkippedUnderRegularization ==
    /\ pc = "returned" /\ results = "results"
    /\ config.add_no_good_cuts \/ config.use_tabu_list
    /\ ~should_terminate
    /\ config.add_regularization # "None"
    /\ ~fix_called

\* This step is deactivate_no_good_cuts_when_fixing_bound.
DeactivateStep == pc = "deactivate_no_good_cuts" /\ pc' # pc

\* C9: deactivate_no_good_cuts_when_fixing_bound changes only this: with
\* add_no_good_cuts the most recently added cut becomes inactive, the earlier
\* cuts and the length and order of the collection are kept; with
\* use_tabu_list the last entry of the explored list is removed and the rest
\* keeps its order.
C9_DeactivationEffect ==
    [][DeactivateStep =>
          /\ raised' = raised
          /\ Len(no_good_cuts') = Len(no_good_cuts)
          /\ \A i \in 1..Len(no_good_cuts) :
                /\ no_good_cuts'[i].asg = no_good_cuts[i].asg
                /\ no_good_cuts'[i].active =
                      IF config.add_no_good_cuts /\ i = Len(no_good_cuts)
                      THEN FALSE ELSE no_good_cuts[i].active
          /\ integer_list' =
                IF config.use_tabu_list /\ integer_list # <<>>
                THEN SubSeq(integer_list, 1, Len(integer_list) - 1)
                ELSE integer_list]_vars

\* Both options are set, the explored list has an entry, the cut collection
\* is empty and the loop ended on an infeasible main problem: the exception
\* of line 416 left the explored list untouched.
C9_EvictionPreempted ==
    /\ pc = "raised" /\ raised = "KeyError"
    /\ ~config.single_tree /\ last_iter_cuts /\ main_tc = "infeasible"
    /\ config.add_no_good_cuts /\ config.use_tabu_list
    /\ no_good_cuts = <<>>
    /\ integer_list # <<>>

\* C10: when bound correction runs with add_no_good_cuts set and an empty
\* cut collection, no exception is raised, no cut and no explored-list entry
\* changes, and solve goes on to report the bound.
C10_EmptyCollectionWarns ==
    [][(DeactivateStep /\ config.add_no_good_cuts /\ no_good_cuts = <<>>) =>
          /\ raised' = "none"
          /\ pc' # "raised"
          /\ no_good_cuts' = no_good_cuts
          /\ integer_list' = integer_list]_vars

\* The first main solve was infeasible, bound correction ran on an empty cut
\* collection and KeyError left solve without results.
C10_KeyErrorOnEmptyCollection ==
    /\ pc = "raised" /\ raised = "KeyError"
    /\ ~config.single_tree /\ last_iter_cuts /\ main_tc = "infeasible"
    /\ mip_iter = 1
    /\ fix_called
    /\ config.add_no_good_cuts
    /\ no_good_cuts = <<>>
    /\ results = "pending"

\* ---------------------------------------------------------------------- C11
NoDuplicates(s) == \A i, j \in 1..Len(s) : s[i] = s[j] => i = j

PoolBranchPcs ==
    {"pool_fetch", "pool_for", "pool_solve_subproblem", "pool_handle_nlp",
     "pool_call_after_subproblem_solve", "pool_check"}

\* C11: a step of the solution-pool branch that starts from a duplicate-free
\* integer_list leaves it duplicate-free, and changes it only by appending
\* one assignment that was absent from it.
C11_PoolAppendsOnlyAbsent ==
    [][(pc \in PoolBranchPcs /\ NoDuplicates(integer_list))
          => (/\ NoDuplicates(integer_list')
              /\ \/ integer_list' = integer_list
                 \/ \E a \in Assignments \ Range(integer_list) :
                       integer_list' = Append(integer_list, a))]_vars

\* The pool branch has skipped an explored entry or recorded a new one past
\* the first: two subproblems of one iteration, two recorded assignments.
C11_PoolEntryRecorded ==
    /\ pc = "pool_solve_subproblem"
    /\ counter = 2
    /\ Len(integer_list) >= 2
    /\ integer_list[Len(integer_list)] = work_sol
    /\ NoDuplicates(integer_list)

\* ---------------------------------------------------------------------- C12
\* check_config on its own: every combination of the options it reads or
\* writes, followed by the one call of line 75.
CheckConfigOptions ==
    [add_regularization : {"None", "level_L1", "level_L2", "level_L_infinity",
                           "grad_lag", "hess_lag", "hess_only_lag", "sqp_lag"},
     single_tree : BOOLEAN,
     solution_pool : {FALSE},
     add_no_good_cuts : {FALSE},
     use_tabu_list : {FALSE},
     iteration_limit : 0..MaxIter,
     num_solution_iteration : {1},
     mip_solver : {"glpk", "cplex_persistent", "gurobi_persistent"},
     mip_regularization_solver : {"None", "gurobi"},
     threads : {0, 1, 2},
     regularization_mip_threads : {0, 1},
     calculate_dual_at_solution : {FALSE},
     add_cuts_at_incumbent : {FALSE},
     reduce_level_coef : BOOLEAN,
     use_bb_tree_incumbent : BOOLEAN,
     add_slack : BOOLEAN,
     heuristic_nonconvex : BOOLEAN,
     equality_relaxation : BOOLEAN,
     init_strategy : {"rNLP", "FP"},
     move_objective : {FALSE}]

ConfigInit ==
    /\ config \in CheckConfigOptions
    /\ objective_sense = "minimize"
    /\ pc = "check_config"
    /\ raised = "none"
    /\ mip_iter = 0
    /\ best_solution_found = "None"
    /\ primal_bound = InitialPrimalBound
    /\ dual_bound = InitialDualBound
    /\ dual_bound_progress = <<InitialDualBound>>
    /\ should_terminate = FALSE
    /\ integer_list = <<>>
    /\ curr_int_sol = NoSol
    /\ mip_sol = NoSol
    /\ work_sol = NoSol
    /\ no_good_cuts = <<>>
    /\ last_iter_cuts = FALSE
    /\ main_tc = "None"
    /\ nlp_tc = "None"
    /\ pool = <<>>
    /\ counter = 0
    /\ iter_log = <<>>
    /\ last_check = [site |-> "none", reason |-> "RUNNING"]
    /\ terminated = FALSE
    /\ solved = {}
    /\ repeat_solved = FALSE
    /\ fix_called = FALSE
    /\ regularization_mip_type = "unset"
    /\ results = "pending"
    /\ working_model = SampleModel
    /\ mip = "None"
    /\ oa_cuts = <<>>
    /\ inequality_call = "None"
    /\ expressions = NoExpressions
    /\ logical_call = NoCall

ConfigNext == CheckConfig

ConfigSpec == ConfigInit /\ [][ConfigNext]_vars

\* C12: when check_config completes with single_tree set, iteration_limit
\* is 1 and add_slack is False, whatever the other options are.
C12_SingleTreeForcesLimitAndNoSlack ==
    (pc = "set_up" /\ config.single_tree)
        => (config.iteration_limit = 1 /\ config.add_slack = FALSE)

\* check_config completed in single-tree mode with a supported solver and
\* heuristic_nonconvex set: the iteration limit is 1 but add_slack is True.
C12_SlackReenabled ==
    /\ pc = "set_up"
    /\ config.single_tree
    /\ config.mip_solver \in PersistentSolvers
    /\ config.heuristic_nonconvex
    /\ config.iteration_limit = 1
    /\ config.add_slack

\* ---------------------------------------------------------------------- C13
SingleTreeLoopCalls ==
    {"solve_main", "solve_subproblem", "handle_nlp_subproblem_tc",
     "algorithm_should_terminate"}

SingleTreeSubproblemPcs == {"single_tree_solve_subproblem", "single_tree_handle_nlp"}

\* C13: in single-tree mode the loop never enters the solution-pool branch
\* or the sequential subproblem branch, calls no main-outcome handler, no
\* post-main callback and no regularized main solve, and it solves a
\* subproblem only when add_regularization is set and the main model's final
\* integer assignment is not in integer_list.
C13_SingleTreeLoop ==
    (config.single_tree /\ pc \in LoopBodyPcs \cup {"while", "after_loop"})
        => /\ pc \notin PoolBranchPcs
           /\ pc \notin {"solve_main_regularization", "call_after_main_solve",
                          "solve_subproblem", "handle_nlp_subproblem_tc",
                          "call_after_subproblem_solve", "check_after_subproblem"}
           /\ Range(iter_log) \subseteq SingleTreeLoopCalls
           /\ pool = <<>>
           /\ pc \in SingleTreeSubproblemPcs
                 => /\ config.add_regularization # "None"
                    /\ work_sol = mip_sol
                    /\ mip_sol \notin Range(integer_list)
           /\ "solve_subproblem" \in Range(iter_log)
                 => /\ config.add_regularization # "None"
                    /\ pc \in {"single_tree_handle_nlp", "check_after_main",
                                "while", "after_loop"}

\* The single-tree loop has solved the subproblem of lines 210-212.
C13_SingleTreeSubproblemSolved ==
    /\ config.single_tree
    /\ pc = "single_tree_handle_nlp"
    /\ integer_list # <<>>
    /\ iter_log = <<"solve_main", "solve_subproblem">>

\* ---------------------------------------------------------------------- C14
\* The fields set_up_solve_data, the initialization and the loop write are
\* as on entry of solve.
SolveDataUntouched ==
    /\ mip_iter = 0
    /\ best_solution_found = "None"
    /\ primal_bound = InitialPrimalBound
    /\ dual_bound = InitialDualBound
    /\ dual_bound_progress = <<InitialDualBound>>
    /\ integer_list = <<>>
    /\ no_good_cuts = <<>>
    /\ main_tc = "None"
    /\ nlp_tc = "None"
    /\ solved = {}
    /\ iter_log = <<>>
    /\ last_check.site = "none"
    /\ results = "pending"

\* C14: single_tree with a mip_solver other than cplex_persistent and
\* gurobi_persistent ends solve with the ValueError of check_config, raised
\* before the solve data is set up and before any solve; the set-up and the
\* loop are never reached with such options, and the error has no other
\* origin.
C14_ConfigurationErrorAtSetup ==
    /\ (config.single_tree /\ config.mip_solver \notin PersistentSolvers)
          => /\ pc \in {"check_config", "raised"}
             /\ pc = "raised" => raised = "ValueError"
             /\ SolveDataUntouched
    /\ raised = "ValueError"
          => /\ pc = "raised"
             /\ config.single_tree
             /\ config.mip_solver \notin PersistentSolvers
             /\ SolveDataUntouched

\* solve has raised the configuration error.
C14_ConfigurationErrorRaised ==
    /\ pc = "raised"
    /\ raised = "ValueError"
    /\ config.single_tree
    /\ config.mip_solver = "glpk"

\* ---------------------------------------------------------------------- C15
\* C15: an exception raised inside solve_main or solve_subproblem does not
\* propagate out of MindtPy_iteration_loop or solve; solve never ends with
\* the adapter's exception.
C15_AdapterExceptionContained ==
    ~(pc = "raised" /\ raised = "SolverError")

\* A subproblem solve of the sequential loop raised and solve ended with the
\* exception, without results and without a termination check.
C15_AdapterExceptionLeavesSolve ==
    /\ pc = "raised"
    /\ raised = "SolverError"
    /\ iter_log = <<"solve_main", "handle_main_optimal", "call_after_main_solve",
                    "algorithm_should_terminate", "solve_subproblem">>
    /\ results = "pending"
    /\ ~terminated

\* ---------------------------------------------------------------------- C16
SolveCalls == {"solve_main", "solve_main_regularization", "solve_subproblem"}

\* C16: in sequential mode, once handle_main_other_conditions has handled a
\* main outcome other than optimal and infeasible, the loop stops: no
\* subproblem solve and no further main solve is issued.
C16_MainOtherStopsLoop ==
    (~config.single_tree /\ should_terminate)
        => /\ pc \notin {"while"} \cup MainSolvePcs \cup SubproblemSolvePcs
           /\ \A i \in 1..Len(iter_log) :
                 iter_log[i] = "handle_main_other_conditions"
                    => \A j \in (i + 1)..Len(iter_log) : iter_log[j] \notin SolveCalls

\* The regularized main solve issued after handle_main_other_conditions, in
\* the iteration whose plain main solve failed.
C16_RegularizedSolveAfterOther ==
    /\ ~config.single_tree
    /\ should_terminate
    /\ main_tc = "other"
    /\ pc = "single_tree_regularization"
    /\ iter_log = <<"solve_main", "handle_main_other_conditions",
                    "call_after_main_solve", "solve_main_regularization",
                    "handle_regularization_main_tc">>

\* ---------------------------------------------------------------------- C17
\* C17: in sequential mode, plain or with a solution pool, the calls that
\* follow a subproblem solve are handle_nlp_subproblem_tc, then
\* call_after_subproblem_solve, then the termination check, in this order
\* and with nothing between them, whatever the solve reported; no other
\* solve is issued before the three have run.  (A solve whose call raised
\* is followed by nothing: the run has ended, see C15.)
C17_SubproblemSolveFollowUp ==
    ~config.single_tree =>
       \A i \in 1..Len(iter_log) :
          iter_log[i] = "solve_subproblem" =>
             /\ i + 1 <= Len(iter_log) => iter_log[i + 1] = "handle_nlp_subproblem_tc"
             /\ i + 2 <= Len(iter_log) => iter_log[i + 2] = "call_after_subproblem_solve"
             /\ i + 3 <= Len(iter_log) => iter_log[i + 3] = "algorithm_should_terminate"
             /\ i = Len(iter_log)
                   => \/ pc \in {"handle_nlp_subproblem_tc", "pool_handle_nlp"}
                      \/ pc = "raised" /\ raised = "SolverError"
             /\ i + 1 = Len(iter_log)
                   => pc \in {"call_after_subproblem_solve",
                              "pool_call_after_subproblem_solve"}
             /\ i + 2 = Len(iter_log)
                   => pc \in {"check_after_subproblem", "pool_check"}

\* Two subproblem solves of one solution-pool iteration, each followed by
\* its handler, the callback and the termination check.
C17_TwoPoolSolvesFollowedUp ==
    /\ config.solution_pool
    /\ pc = "while"
    /\ Len(iter_log) = 12
    /\ iter_log[5] = "solve_subproblem"
    /\ iter_log[9] = "solve_subproblem"
    /\ iter_log[12] = "algorithm_should_terminate"

\* ---------------------------------------------------------------------- C18
\* a is processed before b without breaking the objective order.
ObjectiveOrder(a, b) ==
    IF objective_sense = "maximize" THEN a.obj >= b.obj ELSE a.obj <= b.obj

PoolSorted(s) == \A i, j \in 1..Len(s) : i < j => ObjectiveOrder(s[i], s[j])

\* C18: the entries of the solution pool are processed one at a time in
\* objective order, non-decreasing for a minimization and non-increasing
\* for a maximization: the for loop takes one entry per step, the first of
\* those left, and no entry left comes before it in the order.
C18_PoolProcessedInObjectiveOrder ==
    [][/\ PoolSorted(pool')
       /\ (pc = "pool_for" /\ pool' # pool)
             => /\ pool' = Tail(pool)
                /\ \A k \in 1..Len(pool') : ObjectiveOrder(Head(pool), pool'[k])]_vars

\* A maximization whose pool holds two entries with different objective
\* values, the larger one first.
C18_MaximizePoolDescending ==
    /\ objective_sense = "maximize"
    /\ pc = "pool_for"
    /\ counter = 0
    /\ Len(pool) = 2
    /\ pool[1].obj > pool[2].obj

\* ---------------------------------------------------------------------- C19
RECURSIVE Count(_, _)
Count(e, s) ==
    IF s = <<>> THEN 0 ELSE (IF Head(s) = e THEN 1 ELSE 0) + Count(e, Tail(s))

PoolLoopPcs ==
    {"pool_for", "pool_solve_subproblem", "pool_handle_nlp",
     "pool_call_after_subproblem_solve", "pool_check"}

\* C19: in solution-pool mode the subproblem solves of one outer iteration
\* never exceed num_solution_iteration; inside the for loop, counter is the
\* number of entries whose subproblem has been solved or is being solved, so
\* a skipped entry does not count.
C19_PoolSolvesCapped ==
    (config.solution_pool /\ ~config.single_tree)
        => /\ Count("solve_subproblem", iter_log) <= config.num_solution_iteration
           /\ counter <= config.num_solution_iteration
           /\ pc \in PoolLoopPcs
                 => counter = Count("solve_subproblem", iter_log)
                              + (IF pc = "pool_solve_subproblem" THEN 1 ELSE 0)

\* The cap is reached while the pool still holds an entry.
C19_CapReachedWithEntriesLeft ==
    /\ config.solution_pool
    /\ pc = "pool_check"
    /\ counter = config.num_solution_iteration
    /\ Count("solve_subproblem", iter_log) = config.num_solution_iteration
    /\ pool # <<>>

\* ---------------------------------------------------------------------- C20
\* A pass of the for loop that goes on to solve a subproblem.
PoolEntrySelected == pc = "pool_for" /\ pc' = "pool_solve_subproblem"

\* C20 as stated: the assignment a pool subproblem is solved for is never in
\* integer_list when its entry is selected, and is in integer_list afterwards.
C20_PoolSolvesOnlyUnexplored ==
    [][PoolEntrySelected
          => (work_sol' \notin Range(integer_list)
              /\ work_sol' \in Range(integer_list'))]_vars

\* C20: past the first entry, a subproblem is solved only for an entry whose
\* assignment is not in integer_list, and the assignment is appended before
\* the solve; the first entry is solved without a lookup, for the assignment
\* the main solve left in the working model, which the check after the main
\* solve has already recorded.  Every assignment a pool subproblem is solved
\* for is in integer_list from then on.
C20_PoolSolvesUnexploredPastFirst ==
    [][/\ PoolEntrySelected
             => /\ work_sol' \in Range(integer_list')
                /\ counter >= 1
                      => /\ work_sol' = Head(pool).asg
                         /\ Head(pool).asg \notin Range(integer_list)
                /\ counter = 0
                      => /\ work_sol' = work_sol
                         /\ work_sol \in Range(integer_list)
                         /\ integer_list' = integer_list
       /\ pc' \in PoolLoopPcs \ {"pool_for"}
             => work_sol' \in Range(integer_list')]_vars

\* The first entry is being solved for an assignment that is already in
\* integer_list, while an unexplored entry waits in the pool.
C20_FirstEntrySolvedThoughExplored ==
    /\ pc = "pool_solve_subproblem"
    /\ counter = 1
    /\ work_sol \in Range(integer_list)
    /\ pool # <<>>
    /\ Head(pool).asg \notin Range(integer_list)

\* ---------------------------------------------------------------------- C21
\* The set-up of solve on its own: every option set of Configs and every
\* model of WorkingModels, from check_config to initialize_mip_problem, which
\* is then called a second time on the same working model.
SplitInit ==
    /\ config \in Configs
    /\ objective_sense \in {"minimize", "maximize"}
    /\ working_model \in WorkingModels
    /\ pc = "check_config"
    /\ raised = "none"
    /\ mip_iter = 0
    /\ best_solution_found = "None"
    /\ primal_bound = InitialPrimalBound
    /\ dual_bound = InitialDualBound
    /\ dual_bound_progress = <<InitialDualBound>>
    /\ should_terminate = FALSE
    /\ integer_list = <<>>
    /\ curr_int_sol = NoSol
    /\ mip_sol = NoSol
    /\ work_sol = NoSol
    /\ no_good_cuts = <<>>
    /\ last_iter_cuts = FALSE
    /\ main_tc = "None"
    /\ nlp_tc = "None"
    /\ pool = <<>>
    /\ counter = 0
    /\ iter_log = <<>>
    /\ last_check = [site |-> "none", reason |-> "RUNNING"]
    /\ terminated = FALSE
    /\ solved = {}
    /\ repeat_solved = FALSE
    /\ fix_called = FALSE
    /\ regularization_mip_type = "unset"
    /\ results = "pending"
    /\ mip = "None"
    /\ oa_cuts = <<>>
    /\ inequality_call = "None"
    /\ expressions = NoExpressions
    /\ logical_call = NoCall

SplitNext ==
    \/ CheckConfig
    \/ ModelInvalid
    \/ SetUp
    \/ InitializeMipProblem
    \/ InitializeMipProblemAgain

SplitSpec == SplitInit /\ [][SplitNext]_vars

ObjectiveStates(m) == <<m.objective_list_0, m.objective_constr, m.objective>>

\* The two objective components of a model (objective_constr is a constraint).
NoActiveObjective(m) == m.objective_list_0 # "active" /\ m.objective # "active"

\* C21: initialize_mip_problem leaves a main model that is a clone of the
\* working model with every nonlinear constraint deactivated, every other
\* constraint as in the working model and no active objective, and it
\* leaves the activation states of the working model as they were.
C21_MainModelRelaxed ==
    [][(pc = "initialize_mip_problem" /\ pc' = "initialization")
          => /\ mip'.constraints = NonlinearDeactivated(working_model.constraints)
             /\ NoActiveObjective(mip')
             /\ working_model'.constraints = working_model.constraints
             /\ ObjectiveStates(working_model') = ObjectiveStates(working_model)]_vars

\* initialize_mip_problem has returned and a nonlinear constraint of the
\* main model is still active.
C21_NonlinearConstraintStillActive ==
    /\ pc = "initialization"
    /\ NoActiveObjective(mip)
    /\ \E i \in 1..Len(mip.constraints) :
          mip.constraints[i].nonlinear /\ mip.constraints[i].active

\* ---------------------------------------------------------------------- C22
\* C22: the set-up activates the original objective and deactivates the
\* epigraph constraint and the epigraph objective if and only if the
\* original objective's polynomial degree is handleable and
\* add_regularization is not None; otherwise the three activation states
\* are those process_objective left.
C22_OriginalObjectiveRestoredIff ==
    [][(pc = "set_up" /\ pc' = "initialize_mip_problem")
          => IF working_model.degree_handleable /\ config.add_regularization # "None"
             THEN ObjectiveStates(working_model') = <<"active", "inactive", "inactive">>
             ELSE /\ ObjectiveStates(working_model')
                        = ObjectiveStates(ProcessObjective(working_model, config))
                  /\ ObjectiveStates(working_model')
                        \in {<<"active", "absent", "absent">>,
                             <<"inactive", "active", "active">>}]_vars

\* The original objective is back in use under regularization.
C22_OriginalObjectiveInUse ==
    /\ pc = "initialize_mip_problem"
    /\ config.add_regularization # "None"
    /\ working_model.degree_handleable
    /\ ObjectiveStates(working_model) = <<"active", "inactive", "inactive">>

\* ---------------------------------------------------------------------- C23
ActiveCount(m) ==
    Cardinality({i \in 1..Len(m.constraints) : m.constraints[i].active})

InactiveCount(m) ==
    Cardinality({i \in 1..Len(m.constraints) : ~m.constraints[i].active})

IsPrefix(s, t) == Len(s) <= Len(t) /\ SubSeq(t, 1, Len(s)) = s

\* C24: in every step of a run the OA cut collection keeps its cuts, their
\* order and their activation and at most grows at the end; the no-good cut
\* collection does the same in every step other than the deactivation made
\* by the bound correction after the loop.
C24_CutsAppendOnly ==
    [][/\ IsPrefix(oa_cuts, oa_cuts')
       /\ DeactivateStep \/ IsPrefix(no_good_cuts, no_good_cuts')]_vars

\* Two OA cuts of different iterations were appended and the bound
\* correction has deactivated the most recent no-good cut.
C24_CutsKeptThroughBoundCorrection ==
    /\ pc = "rederive_dual_bound"
    /\ Len(oa_cuts) >= 2
    /\ oa_cuts[1].iter < oa_cuts[2].iter
    /\ \A i \in 1..Len(oa_cuts) : oa_cuts[i].active
    /\ no_good_cuts # <<>>
    /\ ~no_good_cuts[Len(no_good_cuts)].active

\* ---------------------------------------------------------------------- C25
\* The entries of seq never worsen with respect to the objective sense.
MonotoneBounds(seq) ==
    \A i \in 1..(Len(seq) - 1) :
        IF objective_sense = "minimize" THEN seq[i] <= seq[i + 1]
        ELSE seq[i] >= seq[i + 1]

\* C25: the dual bounds recorded by the accepted main solves of a run are
\* non-decreasing for a minimization problem and non-increasing for a
\* maximization problem.
C25_DualBoundMonotone == MonotoneBounds(dual_bound_progress)

\* A maximization run accepted three main solves; the second moved the
\* bound down and the third left it in place.
C25_MaximizeBoundHeld ==
    /\ objective_sense = "maximize"
    /\ ~config.single_tree
    /\ pc = "call_after_main_solve"
    /\ Len(dual_bound_progress) = 4
    /\ dual_bound_progress[2] > dual_bound_progress[3]
    /\ dual_bound_progress[3] = dual_bound_progress[4]

\* ---------------------------------------------------------------------- C26
\* C26: whenever solve has returned without raising, what it returned is the
\* results record, whether or not the model passed validation.
C26_ReturnsResultsRecord == pc = "returned" => results = "results"

\* The model did not pass validation: solve returned before the results
\* object was set up and handed back None.
C26_InvalidModelReturnsNone ==
    /\ pc = "returned"
    /\ raised = "none"
    /\ results = "None"
    /\ mip = "None"

\* ------------------------------------------------- logical_expr.inequality
\* The operands a call may pass: None, the numbers 0 and 1 and a variable.
Operands == {"None", "0", "1", "x"}

\* A test that takes every falsy operand for a missing one.
IsFalsy(operand) == operand \in {"None", "0"}

\* Lines 263-271: "<operand> is None".
IsNone(operand) == operand = "None"

\* Line 82: RangedExpression.STRICT maps a flag to a pair of flags.
STRICT(strict) == <<strict, strict>>

\* Lines 80-82: RangedExpression(args, strict).
RangedExpression(args, strict) ==
    [type |-> "RangedExpression", args |-> args, strict |-> STRICT(strict)]

\* Lines 164-166: InequalityExpression(args, strict).
InequalityExpression(args, strict) ==
    [type |-> "InequalityExpression", args |-> args, strict |-> strict]

\* raise ValueError("Invalid inequality expression.")
ValueError == [type |-> "ValueError"]

\* Lines 263-273.
inequality(lower, body, upper, strict) ==
    IF IsNone(lower)
    THEN IF IsNone(body) \/ IsNone(upper)
         THEN ValueError
         ELSE InequalityExpression(<<body, upper>>, strict)
    ELSE IF IsNone(body)
    THEN IF IsNone(lower) \/ IsNone(upper)
         THEN ValueError
         ELSE InequalityExpression(<<lower, upper>>, strict)
    ELSE IF IsNone(upper)
    THEN InequalityExpression(<<lower, body>>, strict)
    ELSE RangedExpression(<<lower, body, upper>>, strict)

\* A call of inequality that has not returned yet.
Pending == [type |-> "pending"]

\* One call of inequality with its arguments drawn from the operands.
InequalityInit ==
    /\ inequality_call \in [lower : Operands, body : Operands, upper : Operands,
                            strict : BOOLEAN, returned : {Pending}]
    /\ pc = "inequality"
    /\ config = CHOOSE c \in Configs : TRUE
    /\ expressions = NoExpressions
    /\ logical_call = NoCall
    /\ objective_sense = "minimize"
    /\ working_model = SampleModel
    /\ raised = "none"
    /\ mip_iter = 0
    /\ best_solution_found = "None"
    /\ primal_bound = InitialPrimalBound
    /\ dual_bound = InitialDualBound
    /\ dual_bound_progress = <<InitialDualBound>>
    /\ should_terminate = FALSE
    /\ integer_list = <<>>
    /\ curr_int_sol = NoSol
    /\ mip_sol = NoSol
    /\ work_sol = NoSol
    /\ no_good_cuts = <<>>
    /\ last_iter_cuts = FALSE
    /\ main_tc = "None"
    /\ nlp_tc = "None"
    /\ pool = <<>>
    /\ counter = 0
    /\ iter_log = <<>>
    /\ last_check = [site |-> "none", reason |-> "RUNNING"]
    /\ terminated = FALSE
    /\ solved = {}
    /\ repeat_solved = FALSE
    /\ fix_called = FALSE
    /\ regularization_mip_type = "unset"
    /\ results = "pending"
    /\ mip = "None"
    /\ oa_cuts = <<>>

\* The call runs and returns an expression or raises.
Inequality ==
    /\ pc = "inequality"
    /\ inequality_call' =
          [inequality_call EXCEPT !.returned =
              inequality(inequality_call.lower, inequality_call.body,
                         inequality_call.upper, inequality_call.strict)]
    /\ pc' = "inequality_returned"
    /\ UNCHANGED <<config, objective_sense, expressions, logical_call,
                   working_model, mip, oa_cuts,
                   raised, mip_iter, best_solution_found,
                   primal_bound, dual_bound, dual_bound_progress, should_terminate,
                   integer_list, curr_int_sol, mip_sol, work_sol, no_good_cuts,
                   last_iter_cuts, main_tc, nlp_tc, pool, counter,
                   iter_log, last_check, terminated, solved, repeat_solved,
                   fix_called, regularization_mip_type, results>>

InequalityNext == Inequality

InequalitySpec == InequalityInit /\ [][InequalityNext]_vars

\* ---------------------------------------------------------------------- C27
\* The operands of a call that are not None, in lower, body, upper order.
Supplied(call) ==
    SelectSeq(<<call.lower, call.body, call.upper>>, LAMBDA o : o # "None")

\* C27: a call of inequality with exactly one operand None returns an
\* InequalityExpression over the two other operands, in lower, body, upper
\* order, with the strict flag of the call; with no operand None it returns
\* a RangedExpression over lower, body and upper; with two or three operands
\* None it raises ValueError.
C27_InequalityByMissingOperand ==
    pc = "inequality_returned" =>
        LET supplied == Supplied(inequality_call)
            returned == inequality_call.returned
        IN  CASE Len(supplied) = 2 ->
                    /\ returned.type = "InequalityExpression"
                    /\ returned.args = supplied
                    /\ returned.strict = inequality_call.strict
              [] Len(supplied) = 3 ->
                    /\ returned.type = "RangedExpression"
                    /\ returned.args = supplied
              [] OTHER -> returned.type = "ValueError"

\* A strict call with lower 0 and no body returned the inequality 0 < x.
C27_ZeroLowerNoBody ==
    /\ pc = "inequality_returned"
    /\ inequality_call.lower = "0"
    /\ inequality_call.body = "None"
    /\ inequality_call.upper = "x"
    /\ inequality_call.strict
    /\ inequality_call.returned.type = "InequalityExpression"
    /\ inequality_call.returned.args = <<"0", "x">>

\* ---------------------------------------------------------------------- C28
\* This step leaves the while loop.
LoopExitStep == pc # "after_loop" /\ pc' = "after_loop"

\* C28: without single_tree and solution_pool, the loop is left from the
\* main outcome, from one of the two termination checks or by the loop
\* condition, and it leaves last_iter_cuts true exactly when it is left on an
\* infeasible main problem or by the check that follows the subproblem
\* solve; the flag then reaches fix_dual_bound as the loop left it.
C28_LastIterCutsByExit ==
    [][(~config.single_tree /\ ~config.solution_pool) =>
          /\ LoopExitStep =>
                /\ pc \in {"main_result", "check_after_main",
                           "check_after_subproblem", "while"}
                /\ last_iter_cuts' <=>
                      \/ pc = "main_result" /\ main_tc = "infeasible"
                      \/ pc = "check_after_subproblem"
          /\ pc = "after_loop" => last_iter_cuts' = last_iter_cuts]_vars

\* Bound correction was entered with the flag set after the check that
\* follows the second subproblem solve ended the loop.
C28_FlagSetBySubproblemCheck ==
    /\ pc = "fix_dual_bound"
    /\ ~config.single_tree /\ ~config.solution_pool
    /\ last_iter_cuts
    /\ mip_iter = 2
    /\ main_tc = "optimal"
    /\ last_check.site = "subproblem"
    /\ last_check.reason # "RUNNING"

\* ---------------------------------------------------------------------- C29
\* solve is one sequential call: while a statement is left to run, it runs.
FairSpec == Spec /\ WF_vars(Next)

\* This step is a plain main solve that returned.
PlainMainSolveStep == pc = "solve_main" /\ pc' = "main_result"

\* C29: every plain main solve that returns counts one iteration and no
\* other step of the loop moves the counter; the counter never passes
\* iteration_limit, which is one in single-tree mode; and once the loop is
\* entered it is left, in plain, solution-pool and single-tree mode, unless
\* an adapter call raises.
C29_LoopTerminatesWithinLimit ==
    /\ [][/\ PlainMainSolveStep =>
                /\ mip_iter' = mip_iter + 1
                /\ mip_iter' <= config.iteration_limit
                /\ config.single_tree => mip_iter' = 1
          /\ (pc \in LoopBodyPcs \cup {"while"} /\ ~PlainMainSolveStep) =>
                mip_iter' = mip_iter]_vars
    /\ (pc = "while") ~> (LoopLeft \/ raised = "SolverError")

\* In solution-pool mode the loop condition ended the loop after three plain
\* main solves.
C29_PoolLoopEndedAtLimit ==
    /\ pc = "after_loop"
    /\ config.solution_pool /\ ~config.single_tree
    /\ config.iteration_limit = 3
    /\ mip_iter = 3
    /\ ~last_iter_cuts
    /\ last_check.reason = "RUNNING"

\* ---------------------------------------------------------------------- C30
\* A solve call on a solver object that is either new or has already
\* returned the results of an earlier call that found an incumbent; the
\* object still holds that incumbent.
ReuseInit ==
    /\ config \in Configs
    /\ objective_sense \in {"minimize", "maximize"}
    /\ \/ /\ best_solution_found = "None"
          /\ primal_bound = InitialPrimalBound
          /\ results = "pending"
       \/ /\ best_solution_found = "earlier"
          /\ primal_bound \in ObjValues
          /\ results = "results"
    /\ working_model = SampleModel
    /\ mip = "None"
    /\ oa_cuts = <<>>
    /\ inequality_call = "None"
    /\ expressions = NoExpressions
    /\ logical_call = NoCall
    /\ pc = "check_config"
    /\ raised = "none"
    /\ mip_iter = 0
    /\ dual_bound = InitialDualBound
    /\ dual_bound_progress = <<InitialDualBound>>
    /\ should_terminate = FALSE
    /\ integer_list = <<>>
    /\ curr_int_sol = NoSol
    /\ mip_sol = NoSol
    /\ work_sol = NoSol
    /\ no_good_cuts = <<>>
    /\ last_iter_cuts = FALSE
    /\ main_tc = "None"
    /\ nlp_tc = "None"
    /\ pool = <<>>
    /\ counter = 0
    /\ iter_log = <<>>
    /\ last_check = [site |-> "none", reason |-> "RUNNING"]
    /\ terminated = FALSE
    /\ solved = {}
    /\ repeat_solved = FALSE
    /\ fix_called = FALSE
    /\ regularization_mip_type = "unset"

ReuseSpec == ReuseInit /\ [][Next]_vars

\* Positions from the call of initialize_mip_problem to the end of the loop
\* and the loading of the solution.
InitializationAndLoopPcs ==
    LoopBodyPcs \cup {"initialize_mip_problem", "initialization", "loop_enter",
                      "while", "after_loop", "fix_dual_bound",
                      "deactivate_no_good_cuts", "rederive_dual_bound",
                      "loop_return"}

\* Lines 136-137: load_solution is called.
SolutionLoaded == pc = "loop_return" /\ best_solution_found # "None"

\* C30: a solve call on a solver object that holds the incumbent of an
\* earlier call reaches its initialization with no incumbent, and whatever
\* incumbent it holds from there on, opens the regularization gate with or
\* loads at the end, is one this call found.
C30_IncumbentResetPerCall ==
    /\ pc \in {"initialize_mip_problem", "initialization"} =>
          best_solution_found = "None"
    /\ pc \in InitializationAndLoopPcs => best_solution_found # "earlier"
    /\ (pc = "regularization_gate" /\ RegularizationGate) =>
          best_solution_found = "found"
    /\ SolutionLoaded => best_solution_found = "found"

\* A later call on a solver object that held an incumbent asks for
\* regularization, has a valid dual bound and no incumbent of its own: the
\* gate stays closed.
C30_GateClosedInLaterCall ==
    /\ results = "results"
    /\ pc = "regularization_gate"
    /\ config.add_regularization # "None"
    /\ ~config.single_tree
    /\ dual_bound # dual_bound_progress[1]
    /\ best_solution_found = "None"
    /\ ~RegularizationGate

\* ---------------------------------------------------------------------- C31
\* C31: when check_config completes with add_regularization not None, the
\* regularization problem type is MILP for level_L1, level_L_infinity and
\* grad_lag and MIQP for level_L2, hess_lag, hess_only_lag and sqp_lag, and
\* calculate_dual_at_solution is True for grad_lag, hess_lag, hess_only_lag
\* and sqp_lag.
C31_RegularizationMipTypeByMethod ==
    (pc = "set_up" /\ config.add_regularization # "None") =>
        /\ regularization_mip_type =
              IF config.add_regularization
                    \in {"level_L1", "level_L_infinity", "grad_lag"}
              THEN "MILP" ELSE "MIQP"
        /\ config.add_regularization
              \in {"grad_lag", "hess_lag", "hess_only_lag", "sqp_lag"}
              => config.calculate_dual_at_solution

\* check_config completed in single-tree mode with grad_lag: the type is
\* MILP and the duals are calculated.
C31_GradLagIsMilp ==
    /\ pc = "set_up"
    /\ config.single_tree
    /\ config.add_regularization = "grad_lag"
    /\ ~config.equality_relaxation /\ ~config.heuristic_nonconvex
    /\ regularization_mip_type = "MILP"
    /\ config.calculate_dual_at_solution

\* ---------------------------------------------------------------------- C32
\* This step is a call of check_config that completes.
CheckConfigCompletes == pc = "check_config" /\ pc' = "set_up"

\* C32: when check_config completes on options with add_regularization
\* not None, regularization_mip_threads 0 and threads above 0, it leaves
\* regularization_mip_threads equal to the threads it leaves, in single-tree
\* mode as in every other.
C32_RegularizationThreadsFollowThreads ==
    [][(/\ CheckConfigCompletes
        /\ config.add_regularization # "None"
        /\ config.regularization_mip_threads = 0
        /\ config.threads > 0)
          => config'.regularization_mip_threads = config'.threads]_vars

\* check_config completed in single-tree mode with regularization: threads
\* was corrected to 1 after regularization_mip_threads had taken the 2 it
\* held before.
C32_ThreadsCorrectedAfterCopy ==
    /\ pc = "set_up"
    /\ config.single_tree
    /\ config.add_regularization # "None"
    /\ config.threads = 1
    /\ config.regularization_mip_threads = 2

\* ------------------------------------------- logical_expr: land, lor, add
MaxArgs == 2
MaxExprs == 3

\* Operands: the native booleans, two Boolean variables and references to
\* expression objects created before.
Native(b) == [kind |-> "native", id |-> IF b THEN 1 ELSE 0]

BooleanVar(i) == [kind |-> "var", id |-> i]

ExpressionRef(i) == [kind |-> "expr", id |-> i]

Atoms == {Native(FALSE), Native(TRUE), BooleanVar(1), BooleanVar(2)}

BooleanOperands(h) == Atoms \cup {ExpressionRef(i) : i \in 1..Len(h.objects)}

OperandSeqs(h) == UNION {[1..n -> BooleanOperands(h)] : n \in 0..MaxArgs}

\* BooleanConstant(value), lines 760 and 791; the class is imported from
\* boolean_value (line 36).
BooleanConstant(b) ==
    [class |-> "BooleanConstant", list |-> 0, nargs |-> 0, value |-> b]

\* Lines 690-692: the constructor keeps the list it is given, not a copy,
\* and sets _nargs to its length.  h.lists are the list objects; an
\* expression holds the index of its list.
NaryBooleanExpression(h, class, l) ==
    [class |-> class, list |-> l, nargs |-> Len(h.lists[l]), value |-> FALSE]

\* Lines 447-455: args is self._args_[:self.nargs()].
Args(h, e) == SubSeq(h.lists[e.list], 1, e.nargs)

\* Lines 716-734: the new expression is constructed on orig_expr._args_, the
\* list of the receiver, and that list is extended or appended to in place;
\* line 733 sets _nargs to the length of the list.
add_to_and_or_expression(h, orig_expr, new_arg) ==
    LET o == h.objects[orig_expr]
        same == new_arg.kind = "expr" /\ h.objects[new_arg.id].class = o.class
        added == IF same THEN Args(h, h.objects[new_arg.id]) ELSE <<new_arg>>
        lists1 == [h.lists EXCEPT ![o.list] = @ \o added]
        h1 == [lists |-> lists1, objects |-> h.objects]
        new_expr == NaryBooleanExpression(h1, o.class, o.list)
    IN [expressions |-> [lists |-> lists1, objects |-> Append(h.objects, new_expr)],
        result |-> Len(h.objects) + 1]

\* The result of add for a native operand: the constant (a new object) or
\* the receiver itself.
NativeAbsorbs(h, self, b) ==
    [expressions |-> [h EXCEPT !.objects = Append(@, BooleanConstant(b))],
     result |-> Len(h.objects) + 1]

NativeDropped(h, self) == [expressions |-> h, result |-> self]

\* Lines 757-763.
AndExpression_add(h, self, new_arg) ==
    IF new_arg.kind = "native"
    THEN IF new_arg = Native(FALSE) THEN NativeAbsorbs(h, self, FALSE)
         ELSE NativeDropped(h, self)
    ELSE add_to_and_or_expression(h, self, new_arg)

\* Lines 786-792.
OrExpression_add(h, self, new_arg) ==
    IF new_arg.kind = "native"
    THEN IF new_arg = Native(FALSE) THEN NativeDropped(h, self)
         ELSE NativeAbsorbs(h, self, TRUE)
    ELSE add_to_and_or_expression(h, self, new_arg)

\* result 0: the call raised AttributeError.
AttributeError(h) == [expressions |-> h, result |-> 0]

\* result.add(argdata), lines 527 and 537: the method of the receiver's
\* class.  logical_expr.py defines add for AndExpression and OrExpression;
\* BooleanConstant has no add method.
add(h, self, new_arg) ==
    IF h.objects[self].class = "AndExpression" THEN AndExpression_add(h, self, new_arg)
    ELSE IF h.objects[self].class = "OrExpression" THEN OrExpression_add(h, self, new_arg)
    ELSE AttributeError(h)

\* Lines 526-527 and 536-537: the loop over the operands; an exception
\* ends it.
RECURSIVE AddAll(_, _, _)
AddAll(h, result, operands) ==
    IF operands = <<>> \/ result = 0 THEN [expressions |-> h, result |-> result]
    ELSE LET r == add(h, result, Head(operands))
         IN AddAll(r.expressions, r.result, Tail(operands))

\* When the call returns, the expressions the loop went through are
\* unreferenced: of the objects the call created only its result is kept,
\* with its list.
WithoutTemporaries(h, r) ==
    IF r.result = 0 THEN AttributeError(h)
    ELSE LET obj == r.expressions.objects[r.result]
             kept == Append(h.objects, obj)
         IN [expressions |->
                IF obj.class = "BooleanConstant"
                THEN [lists |-> h.lists, objects |-> kept]
                ELSE [lists |-> Append(h.lists, r.expressions.lists[obj.list]),
                      objects |-> kept],
             result |-> Len(kept)]

\* Lines 521-538: result = AndExpression([]) or OrExpression([]) on a new
\* list, then one add per operand.  _flattened yields a native or scalar
\* operand as it is.
NaryOf(h, class, operands) ==
    LET lists0 == Append(h.lists, <<>>)
        h0 == [lists |-> lists0, objects |-> h.objects]
        h1 == [lists |-> lists0,
               objects |-> Append(h.objects,
                                  NaryBooleanExpression(h0, class, Len(lists0)))]
    IN WithoutTemporaries(h, AddAll(h1, Len(h1.objects), operands))

land(h, operands) == NaryOf(h, "AndExpression", operands)

lor(h, operands) == NaryOf(h, "OrExpression", operands)

\* No expression exists and no call has been made.
LogicalInit ==
    /\ expressions = NoExpressions
    /\ logical_call = NoCall
    /\ pc = "logical"
    /\ inequality_call = "None"
    /\ config = CHOOSE c \in Configs : TRUE
    /\ objective_sense = "minimize"
    /\ working_model = SampleModel
    /\ raised = "none"
    /\ mip_iter = 0
    /\ best_solution_found = "None"
    /\ primal_bound = InitialPrimalBound
    /\ dual_bound = InitialDualBound
    /\ dual_bound_progress = <<InitialDualBound>>
    /\ should_terminate = FALSE
    /\ integer_list = <<>>
    /\ curr_int_sol = NoSol
    /\ mip_sol = NoSol
    /\ work_sol = NoSol
    /\ no_good_cuts = <<>>
    /\ last_iter_cuts = FALSE
    /\ main_tc = "None"
    /\ nlp_tc = "None"
    /\ pool = <<>>
    /\ counter = 0
    /\ iter_log = <<>>
    /\ last_check = [site |-> "none", reason |-> "RUNNING"]
    /\ terminated = FALSE
    /\ solved = {}
    /\ repeat_solved = FALSE
    /\ fix_called = FALSE
    /\ regularization_mip_type = "unset"
    /\ results = "pending"
    /\ mip = "None"
    /\ oa_cuts = <<>>

\* The variables of solve, which no call on expressions touches.
SolveVarsUnchanged ==
    UNCHANGED <<config, objective_sense, inequality_call, pc, raised, mip_iter,
                best_solution_found, primal_bound, dual_bound,
                dual_bound_progress, should_terminate, integer_list,
                curr_int_sol, mip_sol, work_sol, no_good_cuts, last_iter_cuts,
                main_tc, nlp_tc, pool, counter, iter_log, last_check,
                terminated, solved, repeat_solved, fix_called,
                regularization_mip_type, results, working_model, mip, oa_cuts>>

\* A call land(*operands).
Land ==
    /\ pc = "logical"
    /\ Len(expressions.objects) < MaxExprs
    /\ \E operands \in OperandSeqs(expressions) :
          LET r == land(expressions, operands)
          IN /\ expressions' = r.expressions
             /\ logical_call' = [fn |-> "land", receiver |-> 0,
                                 operands |-> operands, result |-> r.result]
    /\ SolveVarsUnchanged

\* A call lor(*operands).
Lor ==
    /\ pc = "logical"
    /\ Len(expressions.objects) < MaxExprs
    /\ \E operands \in OperandSeqs(expressions) :
          LET r == lor(expressions, operands)
          IN /\ expressions' = r.expressions
             /\ logical_call' = [fn |-> "lor", receiver |-> 0,
                                 operands |-> operands, result |-> r.result]
    /\ SolveVarsUnchanged

\* A call self.add(new_arg) on an AndExpression or OrExpression.
Add ==
    /\ pc = "logical"
    /\ Len(expressions.objects) < MaxExprs
    /\ \E self \in 1..Len(expressions.objects) :
       \E new_arg \in BooleanOperands(expressions) :
          /\ expressions.objects[self].class # "BooleanConstant"
          /\ LET r == add(expressions, self, new_arg)
             IN /\ expressions' = r.expressions
                /\ logical_call' = [fn |-> "add", receiver |-> self,
                                    operands |-> <<new_arg>>, result |-> r.result]
    /\ SolveVarsUnchanged

LogicalNext == Land \/ Lor \/ Add

LogicalSpec == LogicalInit /\ [][LogicalNext]_vars

\* ---------------------------------------------------------------------- C33
\* The truth value of an operand under a valuation of the variables; an
\* expression is evaluated on its visible arguments.
RECURSIVE Holds(_, _, _)
Holds(h, operand, v) ==
    IF operand.kind = "native" THEN operand.id = 1
    ELSE IF operand.kind = "var" THEN v[operand.id]
    ELSE LET e == h.objects[operand.id]
         IN IF e.class = "BooleanConstant" THEN e.value
            ELSE IF e.class = "AndExpression"
            THEN \A i \in 1..e.nargs : Holds(h, Args(h, e)[i], v)
            ELSE \E i \in 1..e.nargs : Holds(h, Args(h, e)[i], v)

Valuations == [1..2 -> BOOLEAN]

\* The native operand that decides the result: False for land, True for lor.
Absorbing(fn) == Native(fn = "lor")

\* C33: a call of land (of lor) with any sequence of operands, native
\* booleans at any position, returns an expression that holds exactly when
\* all (when one) of the operands hold; the result is the constant False
\* (True) when a native False (True) is among the operands, and otherwise an
\* AndExpression (OrExpression) with no native operand among its arguments.
C33_NativeOperandsAnywhere ==
    logical_call.fn \in {"land", "lor"} =>
        LET fn == logical_call.fn
            operands == logical_call.operands
            result == logical_call.result
        IN /\ result # 0
           /\ \A v \in Valuations :
                 Holds(expressions, ExpressionRef(result), v) =
                    IF fn = "land"
                    THEN \A i \in 1..Len(operands) : Holds(expressions, operands[i], v)
                    ELSE \E i \in 1..Len(operands) : Holds(expressions, operands[i], v)
           /\ LET e == expressions.objects[result]
              IN IF Absorbing(fn) \in Range(operands)
                 THEN e = BooleanConstant(fn = "lor")
                 ELSE /\ e.class = IF fn = "land" THEN "AndExpression"
                                   ELSE "OrExpression"
                      /\ \A i \in 1..e.nargs : Args(expressions, e)[i].kind # "native"

\* land(False, Y1) raised AttributeError: the loop called add on the
\* BooleanConstant that the first add returned.
C33_OperandAfterNativeFalse ==
    /\ logical_call.fn = "land"
    /\ logical_call.operands = <<Native(FALSE), BooleanVar(1)>>
    /\ logical_call.result = 0

\* ---------------------------------------------------------------------- C34
\* This step is a call of add on an AndExpression or OrExpression.
AddStep == logical_call'.fn = "add" /\ logical_call' # logical_call

\* The arguments an operand contributes: those of an expression of the
\* receiver's class, or the operand itself.
Contributed(h, receiver, new_arg) ==
    IF new_arg.kind = "expr" /\ h.objects[new_arg.id].class = h.objects[receiver].class
    THEN Args(h, h.objects[new_arg.id])
    ELSE <<new_arg>>

\* C34: every call of add leaves each expression that existed before with
\* the arguments it had, and, for an operand that is not a native boolean,
\* returns an expression whose arguments are those of the receiver followed
\* by the added operand or operands; this holds after any earlier adds, on
\* the same receiver as well.
C34_AddLeavesReceiverAndAppends ==
    [][AddStep =>
          LET receiver == logical_call'.receiver
              new_arg == logical_call'.operands[1]
              result == logical_call'.result
          IN /\ \A i \in 1..Len(expressions.objects) :
                   /\ expressions'.objects[i] = expressions.objects[i]
                   /\ expressions.objects[i].class # "BooleanConstant" =>
                         Args(expressions', expressions'.objects[i])
                            = Args(expressions, expressions.objects[i])
             /\ new_arg.kind # "native" =>
                   Args(expressions', expressions'.objects[result])
                      = Args(expressions, expressions.objects[receiver])
                           \o Contributed(expressions, receiver, new_arg)]_vars

\* e = land(); e.add(Y1); e.add(Y2): the second add returned an expression
\* with the arguments Y1, Y2, while e still shows none.
C34_SecondAddSeesFirstOperand ==
    /\ logical_call = [fn |-> "add", receiver |-> 1,
                       operands |-> <<BooleanVar(2)>>, result |-> 3]
    /\ \A i \in 1..3 : expressions.objects[i].class = "AndExpression"
    /\ Args(expressions, expressions.objects[1]) = <<>>
    /\ Args(expressions, expressions.objects[2]) = <<BooleanVar(1)>>
    /\ Args(expressions, expressions.objects[3]) = <<BooleanVar(1), BooleanVar(2)>>

====
